---------------------------- MODULE Spec2Model ----------------------------
(***************************************************************************)
(* A model of the agent-orchestration and stage-gating engine of the       *)
(* short-drama studio:                                                     *)
(*   - the AgentStateMachine class (src/src/lib/agent-state-machine.ts),   *)
(*   - the chat hook useProjectChat with its validate-and-save loop        *)
(*     (src/src/hooks/useProjectChat.ts),                                  *)
(*   - the application hook useAgentSystem that App mounts                 *)
(*     (src/src/hooks/useAgentSystem.ts).                                  *)
(*                                                                         *)
(* Specifications:                                                         *)
(*   SpecSM     every public method of AgentStateMachine, any start stage  *)
(*   SpecSaved  only onContentSaved calls, any start stage                 *)
(*   SpecChat   chat turns of useProjectChat (handleSendMessage,           *)
(*              handleSaveIntent, handleAutoFix)                           *)
(*   FairChat   SpecChat with weak fairness of the steps of a turn         *)
(*   SpecLoop   one invocation of useProjectChat's handleSaveIntent        *)
(*   FairLoop   SpecLoop with weak fairness of its steps                   *)
(*   SpecApp    chat turns, manual auto-fix and stage navigation of        *)
(*              useAgentSystem                                             *)
(*   SpecBackground  SpecApp's handlers on a project whose planning        *)
(*              documents are written, with handleLockBackground           *)
(*   SpecEpisode  the episode flow of useAgentSystem: progress list,       *)
(*              episode saves, auto-advance, episode creation              *)
(*   SpecStatus  refreshEpisodeProgress applied to any episode store       *)
(*   SpecAssemble  assembleContext applied to any context and budget       *)
(*   SpecWindow  the history window of writerChat applied to any history   *)
(*   SpecListen  the machine's methods with stageChange listeners          *)
(*   SpecCreate  SpecEpisode with chat saves into episode files            *)
(*   SpecSend    handleSendMessage up to the request of writerChat         *)
(*   SpecAligner  alignerCheck applied to any reply or provider error      *)
(*   SpecParser  parseAgentResponse applied to any text                    *)
(*   SpecPartial  extractPartialMessage on the prefixes of a document      *)
(*   SpecStoryboard  batch and single-shot regeneration of visual prompts  *)
(*   SpecDb      concurrent saves into the files table (db.ts)             *)
(***************************************************************************)
EXTENDS Integers, Sequences, FiniteSets, TLC

VARIABLES
    \* ---- AgentStateMachine ----
    smStage,      \* AgentStateMachine.currentStage
    smEvents,     \* events emitted by the most recent method call, in order
    smLastOp,     \* the most recent method call: [op, arg, ret]
    smTrace,      \* the stages the machine has been in, oldest first
    \* ---- document store and hook state (useProjectChat / useAgentSystem) ----
    files,        \* fileAPI: path -> content of the project's file, or NoFile
    isTyping,     \* useState isTyping
    agentState,   \* useState agentState: [status, action]
    unlockedStages, \* useState unlockedStages
    chatPc,       \* where the chat turn in flight is waiting ("idle": none)
    turn,         \* the local variables of the turn in flight
    calls,        \* agent calls and store writes made by the current turn
    lastAligner,  \* the most recent Aligner call of the turn: [content, n, result]
    turnMessages, \* the messages the current turn appended, in order
    turnOutcome,  \* how the most recent turn ended
    \* ---- useAgentSystem only ----
    currentStage, \* useState currentStage
    autoFix,      \* the handleAutoFix call in flight
    offeredAction, \* the auto_fix action of the latest failure message
    isBackgroundLocked, \* useState isBackgroundLocked (the project's flag)
    lockCall,     \* the handleLockBackground call in flight and the last result
    \* ---- episode flow of useAgentSystem ----
    \* The episode file episodes/EP-NN.md and its scene file scenes/EP-NN.json
    \* are named by the number NN.
    episodeFiles, \* fileAPI: NN -> content of episodes/EP-NN.md, or NoFile
    sceneFiles,   \* fileAPI: the NN whose scenes/EP-NN.json exists
    episodes,     \* useState episodes: the listed episode files, in order
    episodeProgress, \* useState episodeProgress
    currentEpisodePath, \* useState currentEpisodePath
    advanceModalState,  \* useState advanceModalState
    autoAdvancePreference, \* useState autoAdvancePreference
    epLastOp,     \* the most recent episode handler: [op, refreshed]
    \* ---- prompt assembly (token-utils.ts, AgentSystem.writerChat) ----
    projectContext, \* the ProjectContext given to assembleContext
    assembled,    \* the most recent assembleContext call and its result
    chatCall,     \* the arguments of the writerChat call
    historyMessages, \* the history window writerChat built, or NoWindow
    \* ---- calls of the parsing and checking functions ----
    fnCall,       \* the function call being made: [fn, ...arguments]
    fnResult,     \* what the call returned, or NoResult
    storyboard,   \* StoryboardEditor: scenes, batch run, Visualizer requests
    db,           \* the files table and the calls of fileAPI in progress
    smListeners   \* the machine's stageChange callbacks and the last delivery

smVars == <<smStage, smEvents, smLastOp, smTrace>>

appVars == <<currentStage, autoFix, offeredAction>>

lockVars == <<isBackgroundLocked, lockCall>>

epVars == <<episodeFiles, sceneFiles, episodes, episodeProgress,
            currentEpisodePath, advanceModalState, autoAdvancePreference,
            epLastOp>>

promptVars == <<projectContext, assembled, chatCall, historyMessages>>

libVars == <<fnCall, fnResult>>

\* The variables of the parts modelled on their own.
restVars == <<storyboard, db, smListeners>>

extraVars == <<libVars, restVars>>

\* The variables no handler of the chat turn or of the auto-fix writes.
otherVars == <<lockVars, epVars, promptVars, extraVars>>

hookVars == <<files, isTyping, agentState, unlockedStages, chatPc, turn, calls,
              lastAligner, turnMessages, turnOutcome, currentStage, autoFix,
              offeredAction, isBackgroundLocked, lockCall,
              episodeFiles, sceneFiles, episodes, episodeProgress,
              currentEpisodePath, advanceModalState, autoAdvancePreference,
              epLastOp, projectContext, assembled, chatCall, historyMessages, extraVars>>

vars == <<smStage, smEvents, smLastOp, smTrace,
          files, isTyping, agentState, unlockedStages, chatPc, turn, calls,
          lastAligner, turnMessages, turnOutcome, currentStage, autoFix,
          offeredAction, isBackgroundLocked, lockCall,
          episodeFiles, sceneFiles, episodes, episodeProgress,
          currentEpisodePath, advanceModalState, autoAdvancePreference,
          epLastOp, projectContext, assembled, chatCall, historyMessages, extraVars>>

-----------------------------------------------------------------------------
(***************************************************************************)
(* Bounds of the model.                                                    *)
(***************************************************************************)

\* Number of method calls recorded in smTrace.
MaxCalls == 4

\* Largest number of leading or trailing blanks of a text an agent returns.
MaxPad == 1

\* The most episode files a project holds.
MaxEpisodes == 3

-----------------------------------------------------------------------------
(***************************************************************************)
(* Texts.  A text is lead blanks, then a body that starts and ends with a  *)
(* non-blank character (named by core, len characters long), then trail    *)
(* blanks.  Two texts are equal iff the four fields are; a text with       *)
(* len = 0 consists of its lead blanks only.                               *)
(***************************************************************************)

Str(lead, core, len, trail) == [lead |-> lead, core |-> core, len |-> len, trail |-> trail]

EmptyStr == Str(0, "", 0, 0)

\* String.prototype.length
Length(s) == s.lead + s.len + s.trail

\* String.prototype.trim
Trim(s) == IF s.len = 0 THEN EmptyStr ELSE Str(0, s.core, s.len, 0)

\* A string is truthy iff it is not empty.
Truthy(s) == Length(s) > 0

\* extracted.length > 10 (useProjectChat.ts:314); extractedContent.length < 10
\* (useAgentSystem.ts:598)
MIN_EXTRACTED_LENGTH == 10

\* content.length > 50 (useAgentSystem.ts checkUnlockedStages)
UNLOCK_CONTENT_LENGTH == 50

LongLen == UNLOCK_CONTENT_LENGTH + 10

ShortLen == MIN_EXTRACTED_LENGTH - 5

\* The texts the AutoFixer may return: two long documents with up to MaxPad
\* trailing blanks, a short one, the empty text.
Contents ==
    { Str(0, c, LongLen, t) : c \in {"A", "B"}, t \in 0..MaxPad }
      \cup { Str(0, "S", ShortLen, 0), EmptyStr }

\* The texts the ContentExtractor and the Writer's saveRequest may carry.
ExtractOutputs == { c \in Contents : c.core # "B" }

\* The feedback text of the Aligner's n-th reply within a turn: successive
\* replies carry different texts.
Feedback(n) == IF n % 2 = 1 THEN "feedback-odd" ELSE "feedback-even"

\* getFile found no file.
NoFile == [nofile |-> TRUE]

\* No text yet (an unset local variable).
NoText == [notext |-> TRUE]

\* An agent call that throws instead of returning a text.
Throw == [throw |-> TRUE]

\* No auto_fix action (action: undefined).
NoAction == [type |-> "none"]

None == "None"

\* The paths of the project's files in the model.
Paths == {"world.md", "characters.md", "outline.md", "episodes/EP-01.md"}

\* fileAPI.getFile(projectId, path): the file's content, or NoFile.
getFile(store, path) == store[path]

\* fileAPI.updateFile(id, {content}) on the file found at path.
updateFile(store, path, content) ==
    IF store[path] = NoFile THEN store ELSE [store EXCEPT ![path] = content]

\* fileAPI.createFile(projectId, path, content): updates an existing file.
createFile(store, path, content) == [store EXCEPT ![path] = content]

\* useAgentSystem.checkUnlockedStages: the stages unlocked by the stored
\* documents.
checkUnlockedStages(store) ==
    LET has(p) == store[p] # NoFile /\ Length(store[p]) > UNLOCK_CONTENT_LENGTH IN
    IF ~has("world.md") THEN {"world"}
    ELSE IF ~has("characters.md") THEN {"world", "characters"}
    ELSE IF ~has("outline.md") THEN {"world", "characters", "outline"}
    ELSE {"world", "characters", "outline", "production"}

-----------------------------------------------------------------------------
(***************************************************************************)
(* State shared by the two chat hooks.                                     *)
(***************************************************************************)

NoTurn ==
    [content |-> None, target |-> None, extracted |-> NoText, currentFile |-> NoText,
     current |-> NoText, attempt |-> 0, feedback |-> None, lastFixed |-> NoText,
     viaAutoFix |-> FALSE, stage |-> None, sameAsStored |-> FALSE]

\* No handleAutoFix call of useAgentSystem yet.
NoAutoFix ==
    [pc |-> "idle", action |-> NoAction, duringTurn |-> FALSE, fixer |-> 0]

NoAlignerCall == [content |-> NoText, n |-> 0, result |-> "none"]

NoCalls == [writer |-> 0, aligner |-> 0, fixer |-> 0, writes |-> 0]

\* No handleLockBackground call yet.
NoLockCall == [pc |-> "idle", validation |-> None, pass |-> FALSE, issues |-> None]

\* The project is not locked and no lock request is running.
LockIdle ==
    /\ isBackgroundLocked = FALSE
    /\ lockCall = NoLockCall

\* projectAPI.create: a new project holds the four default files, each a
\* heading followed by blank lines.
DefaultDocument == Str(0, "H", ShortLen, 1)

NewProjectFiles == [p \in Paths |-> DefaultDocument]

\* An empty ProjectContext: no document loaded.
NoContext == [currentFileName |-> "", currentFileContent |-> 0, world |-> 0,
              characters |-> 0, outline |-> 0]

NoAssembled == [called |-> FALSE]

NoChatCall == [history |-> <<>>, systemPrompt |-> 0, userInput |-> 0]

NoWindow == [built |-> FALSE]

\* No prompt has been assembled.
PromptIdle ==
    /\ projectContext = NoContext
    /\ assembled = NoAssembled
    /\ chatCall = NoChatCall
    /\ historyMessages = NoWindow

NoCall == [fn |-> "none"]

NoResult == [returned |-> FALSE]

\* No parsing or checking function has been called.
LibIdle ==
    /\ fnCall = NoCall
    /\ fnResult = NoResult

\* The storyboard editor is not mounted.
NoStoryboard == [mounted |-> FALSE]

\* The files table is not looked at.
NoDb == [open |-> FALSE]

\* No listener of the state machine is looked at.
NoListeners == [modelled |-> FALSE]

RestIdle == storyboard = NoStoryboard /\ db = NoDb /\ smListeners = NoListeners

ExtraIdle == LibIdle /\ RestIdle

\* The episode files of a new project: episodes/EP-01.md with its default
\* heading.
NewEpisodeFiles == [n \in 1..MaxEpisodes |-> IF n = 1 THEN DefaultDocument ELSE NoFile]

\* advanceModalState as constructed: closed, currentEpisodeId '' and
\* nextEpisodePath null (both written 0).
ClosedModal == [isOpen |-> FALSE, currentEpisodeId |-> 0, nextEpisodePath |-> 0]

NoEpisodeOp == [op |-> "none", refreshed |-> FALSE]

\* The episode state as constructed by useState, before the mount effect.
EpisodeIdle ==
    /\ episodeFiles = NewEpisodeFiles
    /\ sceneFiles = {}
    /\ episodes = <<>>
    /\ episodeProgress = <<>>
    /\ currentEpisodePath = 1
    /\ advanceModalState = ClosedModal
    /\ autoAdvancePreference = "disabled"
    /\ epLastOp = NoEpisodeOp

\* The hook after mounting on a new project: the default files, no turn.
MountedIdle ==
    /\ LockIdle
    /\ EpisodeIdle
    /\ files = NewProjectFiles
    /\ isTyping = FALSE
    /\ agentState = [status |-> "idle", action |-> NoAction]
    /\ unlockedStages = {"world", "characters", "outline", "production"}
    /\ chatPc = "idle"
    /\ turn = NoTurn
    /\ calls = NoCalls
    /\ lastAligner = NoAlignerCall
    /\ turnMessages = <<>>
    /\ turnOutcome = None
    /\ currentStage = "production"
    /\ autoFix = NoAutoFix
    /\ offeredAction = NoAction

HookIdle == MountedIdle /\ PromptIdle /\ ExtraIdle

-----------------------------------------------------------------------------
(***************************************************************************)
(* AgentStateMachine (agent-state-machine.ts).                             *)
(***************************************************************************)

Null == "null"

CreativeStage == {"world", "characters", "outline", "production"}

STAGE_CONFIG ==
    [ world      |-> [targetFile |-> "world.md",      nextStage |-> "characters", prevStage |-> Null],
      characters |-> [targetFile |-> "characters.md", nextStage |-> "outline",    prevStage |-> "world"],
      outline    |-> [targetFile |-> "outline.md",    nextStage |-> "production", prevStage |-> "characters"],
      production |-> [targetFile |-> Null,            nextStage |-> Null,         prevStage |-> "outline"] ]

FILE_TO_STAGE ==
    [ f \in {"world.md", "characters.md", "outline.md"} |->
        CASE f = "world.md"      -> "world"
          [] f = "characters.md" -> "characters"
          [] f = "outline.md"    -> "outline" ]

\* Position of a stage in world -> characters -> outline -> production.
StageIndex(s) ==
    CASE s = "world"      -> 0
      [] s = "characters" -> 1
      [] s = "outline"    -> 2
      [] s = "production" -> 3

\* File names handed to the machine: the three mapped files and an episode script.
TargetFiles == {"world.md", "characters.md", "outline.md", "episodes/EP-01.md"}

\* One emitted event: emit(event, a, b), with the value of getStage() a
\* listener would read during the delivery.
Emitted(event, a, b, stageNow) ==
    [event |-> event, a |-> a, b |-> b, stageAtEmit |-> stageNow]

\* The effect of a method on a machine in stage st: the new currentStage, the
\* events emitted in order, and the return value.
SMResult(stage, events, ret) == [stage |-> stage, events |-> events, ret |-> ret]

\* The boolean returned by onContentSaved (return values are kept as strings).
True == "true"

False == "false"

advanceToNext_prev(st) ==
    LET next == STAGE_CONFIG[st].prevStage IN
    IF next # Null
    THEN SMResult(next, <<Emitted("stageChange", next, st, next)>>, next)
    ELSE SMResult(st, <<>>, Null)

advanceToNext(st) ==
    LET next == STAGE_CONFIG[st].nextStage IN
    IF next # Null
    THEN SMResult(next, <<Emitted("stageChange", next, st, next)>>, next)
    ELSE SMResult(st, <<>>, Null)

goBack_toFirst(st) ==
    IF STAGE_CONFIG[st].prevStage # Null
    THEN SMResult("world", <<Emitted("stageChange", "world", st, "world")>>, "world")
    ELSE SMResult(st, <<>>, st)

goBack(st) ==
    LET prev == STAGE_CONFIG[st].prevStage IN
    IF prev # Null
    THEN SMResult(prev, <<Emitted("stageChange", prev, st, prev)>>, prev)
    ELSE SMResult(st, <<>>, st)

goNext(st) ==
    LET r == advanceToNext(st) IN
    SMResult(r.stage, r.events, IF r.ret # Null THEN r.ret ELSE r.stage)

goTo(st, stage) ==
    IF st # stage
    THEN SMResult(stage, <<Emitted("stageChange", stage, st, stage)>>, Null)
    ELSE SMResult(st, <<>>, Null)

onContentSaved_anyMapped(st, targetFile) ==
    IF targetFile \notin DOMAIN FILE_TO_STAGE
    THEN SMResult(st, <<>>, False)
    ELSE LET stageFromFile == FILE_TO_STAGE[targetFile]
             r == advanceToNext(st)
         IN  SMResult(r.stage,
                      <<Emitted("contentSaved", targetFile, stageFromFile, st)>> \o r.events,
                      IF r.ret # Null THEN True ELSE False)

onContentSaved(st, targetFile) ==
    IF targetFile \notin DOMAIN FILE_TO_STAGE
    THEN SMResult(st, <<>>, False)
    ELSE LET stageFromFile == FILE_TO_STAGE[targetFile] IN
         IF stageFromFile = st
         THEN LET r == advanceToNext(st) IN
              SMResult(r.stage,
                       <<Emitted("contentSaved", targetFile, stageFromFile, st)>> \o r.events,
                       IF r.ret # Null THEN True ELSE False)
         ELSE SMResult(st, <<>>, False)

\* new AgentStateMachine(initialStage)
SMInit ==
    /\ smStage \in CreativeStage
    /\ smEvents = <<>>
    /\ smLastOp = [op |-> "constructor", arg |-> smStage, ret |-> Null]
    /\ smTrace = <<smStage>>

SMOnlyInit == SMInit /\ HookIdle

\* A method call with effect r on the machine.
SMApply(op, arg, r) ==
    /\ Len(smTrace) <= MaxCalls
    /\ smStage' = r.stage
    /\ smEvents' = r.events
    /\ smLastOp' = [op |-> op, arg |-> arg, ret |-> r.ret]
    /\ smTrace' = Append(smTrace, r.stage)
    /\ UNCHANGED hookVars

CallOnContentSaved(f) == SMApply("onContentSaved", f, onContentSaved(smStage, f))

CallAdvanceToNext == SMApply("advanceToNext", Null, advanceToNext(smStage))

CallGoNext == SMApply("goNext", Null, goNext(smStage))

CallGoBack == SMApply("goBack", Null, goBack(smStage))

CallGoTo(s) == SMApply("goTo", s, goTo(smStage, s))

SMNext ==
    \/ \E f \in TargetFiles : CallOnContentSaved(f)
    \/ CallAdvanceToNext
    \/ CallGoNext
    \/ CallGoBack
    \/ \E s \in CreativeStage : CallGoTo(s)

SpecSM == SMOnlyInit /\ [][SMNext]_vars

\* The callbacks that may subscribe to stageChange, and what each does when
\* called: return, throw, or call its own unsubscribe handle and return.
MaxListeners == 3

ListenerNames == {"l1", "l2", "l3"}

ListenerBehaviours == {"returns", "throws", "unsubscribes"}

\* The array without its first occurrence of cb (indexOf and splice).
RemoveCallback(callbacks, cb) ==
    IF \E i \in DOMAIN callbacks : callbacks[i] = cb
    THEN LET index == CHOOSE i \in DOMAIN callbacks :
                          callbacks[i] = cb /\ \A k \in 1..(i - 1) : callbacks[k] # cb
         IN  [k \in 1..(Len(callbacks) - 1) |->
                 IF k < index THEN callbacks[k] ELSE callbacks[k + 1]]
    ELSE callbacks

\* callbacks.forEach from index i: forEach visits the indices below the
\* length read at its start, looks each up in the array as it is then, and
\* passes over an index the array no longer has.  A throw is caught.
RECURSIVE ForEachCallback(_, _, _, _)
ForEachCallback(callbacks, i, len, called) ==
    IF i > len THEN [callbacks |-> callbacks, called |-> called]
    ELSE IF i > Len(callbacks) THEN ForEachCallback(callbacks, i + 1, len, called)
    ELSE ForEachCallback(IF callbacks[i].does = "unsubscribes"
                         THEN RemoveCallback(callbacks, callbacks[i])
                         ELSE callbacks,
                         i + 1, len, Append(called, callbacks[i].name))

\* emit('stageChange', ...) for each stageChange among the events of a call.
EmitStageChanges(events) ==
    IF \E i \in DOMAIN events : events[i].event = "stageChange"
    THEN LET run == ForEachCallback(smListeners.callbacks, 1,
                                    Len(smListeners.callbacks), <<>>)
         IN  [smListeners EXCEPT !.callbacks = run.callbacks,
                                 !.atEmit = smListeners.callbacks,
                                 !.called = run.called]
    ELSE [smListeners EXCEPT !.atEmit = <<>>, !.called = <<>>]

ListenerFrame ==
    UNCHANGED <<files, isTyping, agentState, unlockedStages, chatPc, turn, calls,
                lastAligner, turnMessages, turnOutcome, appVars, lockVars,
                epVars, promptVars, libVars, storyboard, db>>

\* A method call with effect r on a machine with listeners.
ListenedApply(op, arg, r) ==
    /\ smListeners.modelled
    /\ Len(smTrace) <= MaxCalls
    /\ smStage' = r.stage
    /\ smEvents' = r.events
    /\ smLastOp' = [op |-> op, arg |-> arg, ret |-> r.ret]
    /\ smTrace' = Append(smTrace, r.stage)
    /\ smListeners' = EmitStageChanges(r.events)
    /\ ListenerFrame

\* on('stageChange', callback)
Listen_on(name, does) ==
    /\ smListeners.modelled
    /\ Len(smListeners.callbacks) < MaxListeners
    /\ \A i \in DOMAIN smListeners.callbacks : smListeners.callbacks[i].name # name
    /\ smListeners' = [smListeners EXCEPT
                          !.callbacks = Append(@, [name |-> name, does |-> does]),
                          !.atEmit = <<>>, !.called = <<>>]
    /\ smLastOp' = [op |-> "on", arg |-> name, ret |-> Null]
    /\ smEvents' = <<>>
    /\ UNCHANGED <<smStage, smTrace>>
    /\ ListenerFrame

ListenNext ==
    \/ \E name \in ListenerNames, does \in ListenerBehaviours : Listen_on(name, does)
    \/ \E f \in TargetFiles : ListenedApply("onContentSaved", f, onContentSaved(smStage, f))
    \/ ListenedApply("advanceToNext", Null, advanceToNext(smStage))
    \/ ListenedApply("goBack", Null, goBack(smStage))
    \/ \E st \in CreativeStage : ListenedApply("goTo", st, goTo(smStage, st))

ListenInit ==
    /\ SMInit
    /\ MountedIdle
    /\ PromptIdle
    /\ LibIdle
    /\ storyboard = NoStoryboard
    /\ db = NoDb
    /\ smListeners = [modelled |-> TRUE, callbacks |-> <<>>, atEmit |-> <<>>,
                      called |-> <<>>]

SpecListen == ListenInit /\ [][ListenNext]_vars

SavedNext == \E f \in TargetFiles : CallOnContentSaved(f)

SpecSaved == SMOnlyInit /\ [][SavedNext]_vars

-----------------------------------------------------------------------------
(***************************************************************************)
(* useProjectChat (useProjectChat.ts).  The props are bound as the hook's  *)
(* comments say: onContentSaved is AgentStateMachine.onContentSaved,       *)
(* checkUnlockedStages is useAgentSystem.checkUnlockedStages.  The props   *)
(* onReloadEditor and onCreateNextEpisode belong to the caller and change  *)
(* none of the variables below.  isTyping is read as rendered: a handler   *)
(* sees the value set by the handlers that ran before it.                  *)
(***************************************************************************)

\* const MAX_AUTO_FIX_ATTEMPTS = 10 (useProjectChat.ts:194)
MAX_AUTO_FIX_ATTEMPTS == 10

\* The files a chat turn may be asked to save.
ChatTargets == {"world.md", "episodes/EP-01.md"}

Msg(role, kind, action, feedback) ==
    [role |-> role, kind |-> kind, action |-> action, feedback |-> feedback]

AutoFixAction(targetFile, originalContent, feedback) ==
    [type |-> "auto_fix", targetFile |-> targetFile,
     originalContent |-> originalContent, feedback |-> feedback]

\* The machine called from a hook: smTrace restarts at the call.
SMCallFromHook(op, arg, r) ==
    /\ smStage' = r.stage
    /\ smEvents' = r.events
    /\ smLastOp' = [op |-> op, arg |-> arg, ret |-> r.ret]
    /\ smTrace' = <<smStage, r.stage>>

\* finally { setIsTyping(false); status working -> idle }, the turn is over.
ChatFinish(status, action, outcome) ==
    /\ isTyping' = FALSE
    /\ agentState' = [status |-> IF status = "working" THEN "idle" ELSE status,
                      action |-> action]
    /\ chatPc' = "idle"
    /\ turnOutcome' = outcome

\* catch (error) { setAgentStatus('failed', ...) } finally { ... }
ChatCatch ==
    /\ ChatFinish("failed", agentState.action, "error")
    /\ UNCHANGED <<files, unlockedStages, turnMessages, lastAligner, turn, smVars>>

\* handleSendMessage past its guard: the user message is appended and
\* writerChat is awaited.
ChatStartTurn(content, viaAutoFix) ==
    /\ isTyping' = TRUE
    /\ agentState' = [agentState EXCEPT !.status = "working"]
    /\ chatPc' = "writer"
    /\ turn' = [NoTurn EXCEPT !.content = content, !.viaAutoFix = viaAutoFix]
    /\ calls' = NoCalls
    /\ turnMessages' = <<Msg("user", content, NoAction, None)>>
    /\ turnOutcome' = None
    /\ lastAligner' = NoAlignerCall
    /\ UNCHANGED <<files, unlockedStages, smVars, appVars, otherVars>>

\* handleSendMessage(content): returns at once while a turn is in flight.
Chat_handleSendMessage(content) ==
    IF isTyping
    THEN UNCHANGED vars
    ELSE ChatStartTurn(content, FALSE)

\* handleAutoFix(targetFile, errorFeedback, originalContent): sets the status
\* and isTyping, then calls handleSendMessage with a repair request.
Chat_handleAutoFix ==
    /\ agentState.action # NoAction
    /\ IF isTyping
       THEN /\ agentState' = [agentState EXCEPT !.status = "working"]
            /\ UNCHANGED <<files, isTyping, unlockedStages, chatPc, turn, calls,
                           lastAligner, turnMessages, turnOutcome, smVars, appVars,
                           otherVars>>
       ELSE ChatStartTurn("text", TRUE)

\* writerChat returns the reply or throws.
Chat_WriterReturns(reply) ==
    /\ chatPc = "writer"
    /\ UNCHANGED <<appVars, otherVars>>
    /\ calls' = [calls EXCEPT !.writer = @ + 1]
    /\ IF reply = "throw"
       THEN ChatCatch
       ELSE /\ turnMessages' = Append(turnMessages, Msg("assistant", "reply", NoAction, None))
            /\ IF turn.content = "text"
               THEN /\ chatPc' = "intent"
                    /\ UNCHANGED <<isTyping, agentState, turnOutcome>>
               ELSE ChatFinish(agentState.status, agentState.action, "chat")
            /\ UNCHANGED <<files, unlockedStages, lastAligner, turn, smVars>>

\* analyzeUserIntent returns {hasSaveIntent, targetFile} or throws.
Chat_IntentReturns(target) ==
    /\ chatPc = "intent"
    /\ UNCHANGED <<appVars, otherVars>>
    /\ UNCHANGED calls
    /\ IF target = "throw"
       THEN ChatCatch
       ELSE /\ IF target = None
               THEN /\ ChatFinish(agentState.status, agentState.action, "chat")
                    /\ UNCHANGED turn
               ELSE /\ chatPc' = "extract"
                    /\ turn' = [turn EXCEPT !.target = target]
                    /\ UNCHANGED <<isTyping, agentState, turnOutcome>>
            /\ UNCHANGED <<files, unlockedStages, lastAligner, turnMessages, smVars>>

\* One Aligner call issued for the candidate.
IssueAligner(candidate) ==
    /\ calls' = [calls EXCEPT !.aligner = @ + 1]
    /\ lastAligner' = [content |-> candidate, n |-> calls.aligner + 1, result |-> "pending"]

\* handleSaveIntent, unchanged check: the stored file equals the extracted
\* text after trimming both.
ContentUnchanged(currentFile, extracted) ==
    currentFile # NoFile /\ Trim(currentFile) = Trim(extracted)

\* handleSaveIntent, the write on pass: update the file read at the start of
\* the call or create it, with the candidate the Aligner just passed.
PersistCandidate_extracted(store, t) ==
    IF t.currentFile # NoFile
    THEN updateFile(store, t.target, t.extracted)
    ELSE createFile(store, t.target, t.extracted)

PersistCandidate(store, t) ==
    IF t.currentFile # NoFile
    THEN updateFile(store, t.target, t.current)
    ELSE createFile(store, t.target, t.current)

\* handleSaveIntent: this was the last attempt.
AttemptsExhausted_off(attempt) == attempt > MAX_AUTO_FIX_ATTEMPTS

AttemptsExhausted(attempt) == attempt >= MAX_AUTO_FIX_ATTEMPTS

\* handleSaveIntent: the AutoFixer's text replaces the candidate.
FixChanged_untrimmed(fixedContent, currentContent) ==
    Truthy(fixedContent) /\ fixedContent # currentContent

FixChanged(fixedContent, currentContent) ==
    Truthy(fixedContent) /\ Trim(fixedContent) # Trim(currentContent)

\* handleSendMessage, result.saved is false and the loop ran: the auto_fix
\* action, status failed, the failure message.
ChatFailure(feedback, outcome) ==
    LET fb == IF feedback = None THEN "" ELSE feedback
        action == AutoFixAction(turn.target, turn.extracted, fb)
    IN  /\ ChatFinish("failed", action, outcome)
        /\ turnMessages' = Append(turnMessages, Msg("system", "failed", action, feedback))
        /\ UNCHANGED <<files, unlockedStages, smVars>>

\* extractContentFromHistory returns; handleSaveIntent starts: unchanged
\* check, then the first Aligner call.
Chat_ExtractReturns(e) ==
    /\ chatPc = "extract"
    /\ UNCHANGED <<appVars, otherVars>>
    /\ IF e = Throw
       THEN ChatCatch /\ UNCHANGED calls
       ELSE IF Truthy(e) /\ Length(e) > MIN_EXTRACTED_LENGTH
       THEN LET currentFile == getFile(files, turn.target) IN
            IF ContentUnchanged(currentFile, e)
            THEN /\ ChatFinish("success", agentState.action, "unchanged")
                 /\ turn' = [turn EXCEPT !.extracted = e, !.currentFile = currentFile,
                                         !.sameAsStored = TRUE]
                 /\ UNCHANGED <<files, unlockedStages, turnMessages, lastAligner, calls, smVars>>
            ELSE /\ chatPc' = "aligner"
                 /\ turn' = [turn EXCEPT !.extracted = e, !.currentFile = currentFile,
                                         !.current = e, !.attempt = 1]
                 /\ IssueAligner(e)
                 /\ UNCHANGED <<files, isTyping, agentState, unlockedStages, turnMessages,
                                turnOutcome, smVars>>
       ELSE /\ ChatFinish(agentState.status, agentState.action, "short")
            /\ turn' = [turn EXCEPT !.extracted = e]
            /\ UNCHANGED <<files, unlockedStages, turnMessages, lastAligner, calls, smVars>>

\* alignerCheck returns {success, feedback} or throws.
Chat_AlignerReturns(res) ==
    /\ chatPc = "aligner"
    /\ UNCHANGED <<appVars, otherVars>>
    /\ lastAligner' = [lastAligner EXCEPT !.result = res]
    /\ IF res = "throw"
       THEN /\ ChatFinish("failed", agentState.action, "error")
            /\ UNCHANGED <<files, unlockedStages, turnMessages, turn, calls, smVars>>
       ELSE LET feedback == Feedback(calls.aligner) IN
            IF res = "pass"
            THEN \* persist, success message, advanceToNextStage, guide message
                 /\ files' = PersistCandidate(files, turn)
                 /\ calls' = [calls EXCEPT !.writes = @ + 1]
                 /\ unlockedStages' = checkUnlockedStages(files')
                 /\ SMCallFromHook("onContentSaved", turn.target,
                                   onContentSaved(smStage, turn.target))
                 /\ turnMessages' = turnMessages \o
                        << Msg("system", "saved", NoAction, feedback),
                           Msg("assistant", "guide", NoAction, None) >>
                 /\ turn' = [turn EXCEPT !.feedback = feedback]
                 /\ ChatFinish("success", agentState.action, "saved")
            ELSE IF AttemptsExhausted(turn.attempt)
            THEN /\ turn' = [turn EXCEPT !.feedback = feedback]
                 /\ ChatFailure(feedback, "exhausted")
                 /\ UNCHANGED calls
            ELSE /\ chatPc' = "fixer"
                 /\ turn' = [turn EXCEPT !.feedback = feedback]
                 /\ calls' = [calls EXCEPT !.fixer = @ + 1]
                 /\ UNCHANGED <<files, isTyping, agentState, unlockedStages, turnMessages,
                                turnOutcome, smVars>>

\* autoFixer returns the fixed text or throws.
Chat_FixerReturns(fixed) ==
    /\ chatPc = "fixer"
    /\ UNCHANGED <<appVars, otherVars>>
    /\ IF fixed = Throw
       THEN /\ ChatFailure(turn.feedback, "fixer_error")
            /\ turn' = [turn EXCEPT !.lastFixed = fixed]
            /\ UNCHANGED <<calls, lastAligner>>
       ELSE IF FixChanged(fixed, turn.current)
       THEN IF turn.attempt < MAX_AUTO_FIX_ATTEMPTS
            THEN /\ chatPc' = "aligner"
                 /\ turn' = [turn EXCEPT !.current = fixed, !.attempt = @ + 1,
                                         !.lastFixed = fixed]
                 /\ IssueAligner(fixed)
                 /\ UNCHANGED <<files, isTyping, agentState, unlockedStages, turnMessages,
                                turnOutcome, smVars>>
            ELSE \* while condition false: return { saved: false, logs }
                 /\ turn' = [turn EXCEPT !.current = fixed, !.lastFixed = fixed]
                 /\ ChatFailure(None, "loop_end")
                 /\ UNCHANGED <<calls, lastAligner>>
       ELSE /\ ChatFailure(turn.feedback, "noop_fix")
            /\ turn' = [turn EXCEPT !.lastFixed = fixed]
            /\ UNCHANGED <<calls, lastAligner>>

ChatTurnStep ==
    \/ \E reply \in {"reply", "throw"} : Chat_WriterReturns(reply)
    \/ \E target \in ChatTargets \cup {None, "throw"} : Chat_IntentReturns(target)
    \/ \E e \in ExtractOutputs \cup {Throw} : Chat_ExtractReturns(e)
    \/ \E res \in {"pass", "fail", "throw"} : Chat_AlignerReturns(res)
    \/ \E fixed \in Contents \cup {Throw} : Chat_FixerReturns(fixed)

ChatNext ==
    \/ \E content \in {"text", "blank"} : Chat_handleSendMessage(content)
    \/ Chat_handleAutoFix
    \/ ChatTurnStep

\* The caller's AgentStateMachine is new AgentStateMachine(): stage world.
ChatInit ==
    /\ HookIdle
    /\ smStage = "world"
    /\ smEvents = <<>>
    /\ smLastOp = [op |-> "constructor", arg |-> "world", ret |-> Null]
    /\ smTrace = <<"world">>

SpecChat == ChatInit /\ [][ChatNext]_vars

\* A pending agent call returns or throws: every await of a turn resolves.
FairChat == SpecChat /\ WF_vars(ChatTurnStep)

\* One invocation of handleSaveIntent: a turn that waits for the
\* ContentExtractor, for any target and any stored documents a chat turn can
\* have left behind (the stage is characters once world.md was saved).
LoopInit ==
    /\ LockIdle
    /\ PromptIdle
    /\ ExtraIdle
    /\ EpisodeIdle
    /\ files \in { f \in [Paths -> { c \in Contents : Truthy(c) } \cup {NoFile}] :
                      \A p \in Paths \ ChatTargets : f[p] = NoFile }
    /\ isTyping = TRUE
    /\ agentState = [status |-> "working", action |-> NoAction]
    /\ unlockedStages = CreativeStage
    /\ chatPc = "extract"
    /\ turn \in { [NoTurn EXCEPT !.content = "text", !.target = t] : t \in ChatTargets }
    /\ calls = [NoCalls EXCEPT !.writer = 1]
    /\ lastAligner = NoAlignerCall
    /\ turnMessages = << Msg("user", "text", NoAction, None),
                         Msg("assistant", "reply", NoAction, None) >>
    /\ turnOutcome = None
    /\ currentStage = "production"
    /\ autoFix = NoAutoFix
    /\ offeredAction = NoAction
    /\ smStage = IF files["world.md"] = NoFile THEN "world" ELSE "characters"
    /\ smEvents = <<>>
    /\ smLastOp = [op |-> "constructor", arg |-> "world", ret |-> Null]
    /\ smTrace = <<smStage>>

\* alignerCheck answers pass or fail, answers {success: false} with the
\* classified message after a provider error ("error"), or throws (getAI).
LoopNext ==
    \/ \E e \in ExtractOutputs \cup {Throw} : Chat_ExtractReturns(e)
    \/ \E res \in {"pass", "fail", "error", "throw"} : Chat_AlignerReturns(res)
    \/ \E fixed \in Contents \cup {Throw} : Chat_FixerReturns(fixed)

SpecLoop == LoopInit /\ [][LoopNext]_vars

\* Every pending agent call of the invocation returns or throws.
FairLoop == SpecLoop /\ WF_vars(LoopNext)

-----------------------------------------------------------------------------
(***************************************************************************)
(* useAgentSystem (useAgentSystem.ts), the hook App mounts.  Its           *)
(* AgentStateMachine is created once and never called, so smVars do not    *)
(* change.  The editor's buffer is the stored document: the save that a    *)
(* stage click runs first leaves the store as it is.  The model follows    *)
(* one handleAutoFix call at a time.                                       *)
(***************************************************************************)

\* stageMapping of handleSendMessage: the stage a saved file leads to.
stageMapping(targetFile) ==
    CASE targetFile = "world.md"      -> "characters"
      [] targetFile = "characters.md" -> "outline"
      [] targetFile = "outline.md"    -> "production"
      [] OTHER                        -> Null

\* parsedResponse.saveRequest is undefined.
NoRequest == [saveRequest |-> FALSE]

\* parsedResponse.saveRequest = {targetFile, content}
SaveRequest(targetFile, content) ==
    [saveRequest |-> TRUE, targetFile |-> targetFile, content |-> content]

\* The texts a saveRequest or the ContentExtractor carries in this hook's
\* model: one long document, with up to MaxPad trailing blanks.
AppTexts == { c \in Contents : c.core = "A" }

\* The texts the AutoFixer returns in this hook's model: another document.
AppFixes == { c \in Contents : c.core = "B" /\ c.trail = 0 }

\* What writerChat may hand back: it throws, or a reply with or without a
\* saveRequest.
WriterReplies ==
    {Throw, NoRequest} \cup { SaveRequest(t, c) : t \in ChatTargets, c \in AppTexts }

\* finally { setIsTyping(false) }, after the last setAgentState of the turn.
AppFinish(status, outcome) ==
    /\ isTyping' = FALSE
    /\ agentState' = [agentState EXCEPT !.status = status]
    /\ chatPc' = "idle"
    /\ turnOutcome' = outcome

\* setAgentState({ status: 'idle', logs: [] }) after a stage switch, then
\* finally { setIsTyping(false) }.
AppFinishReset(outcome) ==
    /\ isTyping' = FALSE
    /\ agentState' = [status |-> "idle", action |-> NoAction]
    /\ chatPc' = "idle"
    /\ turnOutcome' = outcome

\* catch (error): the error message replaces what the turn appended after
\* the user's message; status failed.
AppCatch ==
    /\ AppFinish("failed", "error")
    /\ turnMessages' = << turnMessages[1], Msg("system", "error", NoAction, None) >>
    /\ UNCHANGED <<files, unlockedStages, turn, currentStage, offeredAction>>

\* handleSendMessage(content): returns at once while isTyping; otherwise
\* appends the user's message and awaits writerChat.
App_handleSendMessage ==
    IF isTyping
    THEN UNCHANGED vars
    ELSE /\ isTyping' = TRUE
         /\ agentState' = [agentState EXCEPT !.status = "working"]
         /\ chatPc' = "writer"
         /\ turn' = [NoTurn EXCEPT !.content = "text", !.stage = currentStage]
         /\ calls' = NoCalls
         /\ lastAligner' = NoAlignerCall
         /\ turnMessages' = <<Msg("user", "text", NoAction, None)>>
         /\ turnOutcome' = None
         /\ UNCHANGED <<files, unlockedStages, smVars, appVars, otherVars>>

\* if (saveRequest): alignerCheck(newContent, ...) is awaited.
AppValidate(targetFile, newContent, extracted, currentFile) ==
    /\ chatPc' = "aligner"
    /\ turn' = [turn EXCEPT !.target = targetFile, !.current = newContent,
                            !.extracted = extracted, !.currentFile = currentFile,
                            !.attempt = 1,
                            !.sameAsStored =
                                ContentUnchanged(getFile(files, targetFile), newContent)]
    /\ lastAligner' = [content |-> newContent, n |-> calls.aligner + 1,
                       result |-> "pending"]
    /\ UNCHANGED <<files, isTyping, agentState, unlockedStages, turnOutcome,
                   currentStage, offeredAction>>

\* writerChat returns or throws.  Path A: the reply carries a saveRequest,
\* which goes to the Aligner as it is.  Path B: analyzeUserIntent is
\* awaited.
App_WriterReturns(reply) ==
    /\ chatPc = "writer"
    /\ UNCHANGED <<smVars, autoFix, otherVars>>
    /\ IF reply = Throw
       THEN AppCatch /\ calls' = [calls EXCEPT !.writer = @ + 1] /\ UNCHANGED lastAligner
       ELSE /\ turnMessages' = Append(turnMessages, Msg("assistant", "reply", NoAction, None))
            /\ IF reply.saveRequest
               THEN /\ AppValidate(reply.targetFile, reply.content, NoText, NoText)
                    /\ calls' = [calls EXCEPT !.writer = @ + 1, !.aligner = @ + 1]
               ELSE /\ chatPc' = "intent"
                    /\ calls' = [calls EXCEPT !.writer = @ + 1]
                    /\ UNCHANGED <<files, isTyping, agentState, unlockedStages, turn,
                                   lastAligner, turnOutcome, currentStage, offeredAction>>

\* analyzeUserIntent returns {hasSaveIntent, targetFile} or throws.  Without
\* a save intent the turn ends as a plain chat reply.
App_IntentReturns(target) ==
    /\ chatPc = "intent"
    /\ UNCHANGED <<smVars, autoFix, calls, lastAligner, otherVars>>
    /\ IF target = "throw"
       THEN AppCatch
       ELSE IF target = None
       THEN /\ AppFinish("success", "chat")
            /\ turnMessages' = Append(turnMessages, Msg("system", "writer_log", NoAction, None))
            /\ UNCHANGED <<files, unlockedStages, turn, currentStage, offeredAction>>
       ELSE /\ chatPc' = "extract"
            /\ turn' = [turn EXCEPT !.target = target]
            /\ UNCHANGED <<files, isTyping, agentState, unlockedStages, turnMessages,
                           turnOutcome, currentStage, offeredAction>>

\* extractContentFromHistory returns or throws (path B): too short, the turn
\* ends; equal to the stored file after trimming, no validation, but the
\* stage may advance; otherwise the text goes to the Aligner.
App_ExtractReturns(e) ==
    /\ chatPc = "extract"
    /\ UNCHANGED <<smVars, autoFix, otherVars>>
    /\ IF e = Throw
       THEN AppCatch /\ UNCHANGED <<calls, lastAligner>>
       ELSE IF ~Truthy(e) \/ Length(e) < MIN_EXTRACTED_LENGTH
       THEN /\ AppFinish("idle", "short")
            /\ turn' = [turn EXCEPT !.extracted = e]
            /\ UNCHANGED <<files, unlockedStages, turnMessages, calls, lastAligner,
                           currentStage, offeredAction>>
       ELSE LET currentFile == getFile(files, turn.target) IN
            IF ContentUnchanged(currentFile, e)
            THEN LET nextStage == stageMapping(turn.target)
                     advance == /\ nextStage # Null
                                /\ nextStage # turn.stage
                                /\ Length(currentFile) > UNLOCK_CONTENT_LENGTH
                 IN  /\ currentStage' = IF advance THEN nextStage ELSE currentStage
                     /\ IF advance
                        THEN AppFinishReset("unchanged")
                        ELSE AppFinish("success", "unchanged")
                     /\ turn' = [turn EXCEPT !.extracted = e, !.current = e,
                                             !.currentFile = currentFile,
                                             !.sameAsStored = TRUE]
                     /\ UNCHANGED <<files, unlockedStages, turnMessages, calls,
                                    lastAligner, offeredAction>>
            ELSE /\ AppValidate(turn.target, e, e, currentFile)
                 /\ calls' = [calls EXCEPT !.aligner = @ + 1]
                 /\ UNCHANGED turnMessages

\* alignerCheck returns or throws.  Pass: the file is updated or created,
\* checkUnlockedStages runs, and the stage is set to stageMapping[targetFile]
\* when the file has one.  Fail: a failure message with an auto_fix action.
App_AlignerReturns(res) ==
    /\ chatPc = "aligner"
    /\ UNCHANGED <<smVars, autoFix, otherVars>>
    /\ lastAligner' = [lastAligner EXCEPT !.result = res]
    /\ IF res = "throw"
       THEN AppCatch /\ UNCHANGED calls
       ELSE LET feedback == Feedback(calls.aligner) IN
            IF res = "pass"
            THEN LET file == getFile(files, turn.target)
                     nextStage == stageMapping(turn.target)
                 IN  /\ files' = IF file # NoFile
                                 THEN updateFile(files, turn.target, turn.current)
                                 ELSE createFile(files, turn.target, turn.current)
                     /\ calls' = [calls EXCEPT !.writes = @ + 1]
                     /\ turnMessages' = Append(turnMessages,
                                               Msg("system", "saved", NoAction, feedback))
                     /\ turn' = [turn EXCEPT !.feedback = feedback]
                     /\ IF nextStage # Null
                        THEN /\ currentStage' = nextStage
                             /\ unlockedStages' = checkUnlockedStages(files') \cup {nextStage}
                             /\ AppFinishReset("saved")
                        ELSE /\ unlockedStages' = checkUnlockedStages(files')
                             /\ AppFinish("success", "saved")
                             /\ UNCHANGED currentStage
                     /\ UNCHANGED offeredAction
            ELSE LET action == AutoFixAction(turn.target, turn.current, feedback) IN
                 /\ turnMessages' = Append(turnMessages,
                                           Msg("system", "failed", action, feedback))
                 /\ offeredAction' = action
                 /\ turn' = [turn EXCEPT !.feedback = feedback]
                 /\ AppFinish("failed", "rejected")
                 /\ UNCHANGED <<files, unlockedStages, calls, currentStage>>

\* handleAutoFix(action), from the button of a failure message: no isTyping
\* check; autoFixer(action.originalContent, action.feedback) is awaited.
App_handleAutoFix ==
    /\ offeredAction # NoAction
    /\ autoFix.pc = "idle"
    /\ agentState' = [agentState EXCEPT !.status = "working"]
    /\ autoFix' = [pc |-> "fixer", action |-> offeredAction,
                   duringTurn |-> chatPc # "idle", fixer |-> 1]
    /\ UNCHANGED <<files, isTyping, unlockedStages, chatPc, turn, calls, lastAligner,
                   turnMessages, turnOutcome, currentStage, offeredAction, smVars,
                   otherVars>>

\* autoFixer returns or throws: the file, when it exists, is updated with the
\* returned text.
App_AutoFixReturns(fixed) ==
    /\ autoFix.pc = "fixer"
    /\ LET targetFile == getFile(files, autoFix.action.targetFile)
           written == fixed # Throw /\ targetFile # NoFile
       IN  /\ files' = IF written
                       THEN updateFile(files, autoFix.action.targetFile, fixed)
                       ELSE files
           /\ autoFix' = NoAutoFix
           /\ agentState' = [agentState EXCEPT
                                !.status = IF written THEN "success" ELSE "failed"]
    /\ UNCHANGED <<isTyping, unlockedStages, chatPc, turn, calls, lastAligner,
                   turnMessages, turnOutcome, currentStage, offeredAction, smVars,
                   otherVars>>

\* StageNavigation.handleStageClick(stage) -> onStageChange ->
\* handleStageChange: any unlocked stage other than the current one.
App_handleStageChange(stage) ==
    /\ stage # currentStage
    /\ stage \in unlockedStages
    /\ currentStage' = stage
    /\ UNCHANGED <<files, isTyping, agentState, unlockedStages, chatPc, turn, calls,
                   lastAligner, turnMessages, turnOutcome, autoFix, offeredAction, smVars,
                   otherVars>>

AppNext ==
    \/ App_handleSendMessage
    \/ \E reply \in WriterReplies : App_WriterReturns(reply)
    \/ \E target \in ChatTargets \cup {None, "throw"} : App_IntentReturns(target)
    \/ \E e \in AppTexts \cup {EmptyStr, Throw} : App_ExtractReturns(e)
    \/ \E res \in {"pass", "fail", "throw"} : App_AlignerReturns(res)
    \/ App_handleAutoFix
    \/ \E fixed \in AppFixes \cup {Throw} : App_AutoFixReturns(fixed)
    \/ \E stage \in CreativeStage : App_handleStageChange(stage)

\* A new project after the mount effects: the default files,
\* checkUnlockedStages has unlocked world only, currentStage is its initial
\* 'production'.
AppInit ==
    /\ LockIdle
    /\ PromptIdle
    /\ ExtraIdle
    /\ EpisodeIdle
    /\ files = NewProjectFiles
    /\ isTyping = FALSE
    /\ agentState = [status |-> "idle", action |-> NoAction]
    /\ unlockedStages = checkUnlockedStages(files)
    /\ chatPc = "idle"
    /\ turn = NoTurn
    /\ calls = NoCalls
    /\ lastAligner = NoAlignerCall
    /\ turnMessages = <<>>
    /\ turnOutcome = None
    /\ currentStage = "production"
    /\ autoFix = NoAutoFix
    /\ offeredAction = NoAction
    /\ SMInit
    /\ smStage = "world"

SpecApp == AppInit /\ [][AppNext]_vars

\* result.pass of validateBackgroundSet's answer.
LockPasses_always(validation) == TRUE

LockPasses(validation) == validation = "pass"

\* The lock button of App, shown in stage outline while the project is not
\* locked: handleLockBackground() sets the status and awaits
\* validateBackgroundSet.
App_handleLockBackground ==
    /\ currentStage = "outline"
    /\ ~isBackgroundLocked
    /\ lockCall.pc = "idle"
    /\ lockCall' = [NoLockCall EXCEPT !.pc = "validating"]
    /\ agentState' = [agentState EXCEPT !.status = "working"]
    /\ UNCHANGED <<files, isTyping, unlockedStages, chatPc, turn, calls, lastAligner,
                   turnMessages, turnOutcome, smVars, appVars, isBackgroundLocked,
                   epVars, promptVars, extraVars>>

\* validateBackgroundSet answers pass or fail, answers without an issue list
\* (malformed: result.issues.map throws), or throws.  On pass the flag is
\* stored and set, production is unlocked, and the button's handler switches
\* to production; otherwise a result with pass = false is returned.
App_LockValidated(validation) ==
    /\ lockCall.pc = "validating"
    /\ IF LockPasses(validation)
       THEN /\ isBackgroundLocked' = TRUE
            /\ unlockedStages' = unlockedStages \cup {"production"}
            /\ agentState' = [agentState EXCEPT !.status = "success"]
            /\ currentStage' = "production"
            /\ lockCall' = [pc |-> "idle", validation |-> validation, pass |-> TRUE,
                            issues |-> "list"]
       ELSE /\ agentState' =
                  IF validation = "fail"
                  THEN [status |-> "failed",
                        action |-> AutoFixAction("background-set", EmptyStr, "issues")]
                  ELSE [agentState EXCEPT !.status = "failed"]
            /\ lockCall' = [pc |-> "idle", validation |-> validation, pass |-> FALSE,
                            issues |-> IF validation = "fail" THEN "list" ELSE "empty"]
            /\ UNCHANGED <<isBackgroundLocked, unlockedStages, currentStage>>
    /\ UNCHANGED <<files, isTyping, chatPc, turn, calls, lastAligner, turnMessages,
                   turnOutcome, smVars, autoFix, offeredAction, epVars, promptVars,
                   extraVars>>

\* The text of a planning document that was written earlier.
StoredDocument == Str(0, "A", LongLen, 0)

\* A project whose three planning documents exist, after the mount effects:
\* checkUnlockedStages has unlocked every stage, the project is not locked.
BackgroundInit ==
    /\ LockIdle
    /\ PromptIdle
    /\ ExtraIdle
    /\ EpisodeIdle
    /\ files = [p \in Paths |-> IF p \in DOMAIN FILE_TO_STAGE THEN StoredDocument
                                                         ELSE DefaultDocument]
    /\ isTyping = FALSE
    /\ agentState = [status |-> "idle", action |-> NoAction]
    /\ unlockedStages = checkUnlockedStages(files)
    /\ chatPc = "idle"
    /\ turn = NoTurn
    /\ calls = NoCalls
    /\ lastAligner = NoAlignerCall
    /\ turnMessages = <<>>
    /\ turnOutcome = None
    /\ currentStage = "production"
    /\ autoFix = NoAutoFix
    /\ offeredAction = NoAction
    /\ SMInit
    /\ smStage = "world"

\* The chat turns of this specification save world.md and no agent call
\* throws; the lock request may end in each of its four ways.
BackgroundNext ==
    \/ App_handleSendMessage
    \/ \E reply \in {NoRequest} \cup { SaveRequest("world.md", c) : c \in AppTexts } :
          App_WriterReturns(reply)
    \/ \E target \in {"world.md", None} : App_IntentReturns(target)
    \/ \E e \in AppTexts : App_ExtractReturns(e)
    \/ \E res \in {"pass", "fail"} : App_AlignerReturns(res)
    \/ App_handleAutoFix
    \/ \E fixed \in AppFixes : App_AutoFixReturns(fixed)
    \/ \E stage \in CreativeStage : App_handleStageChange(stage)
    \/ App_handleLockBackground
    \/ \E validation \in {"pass", "fail", "malformed", "throw"} : App_LockValidated(validation)

SpecBackground == BackgroundInit /\ [][BackgroundNext]_vars

-----------------------------------------------------------------------------
(***************************************************************************)
(* The episode flow of useAgentSystem: calculateEpisodeProgress,           *)
(* refreshEpisodeProgress, onEpisodeSaved, confirmAdvance, cancelAdvance,  *)
(* handleCreateEpisode, runDirectorAgent.  Each handler runs as one step.  *)
(***************************************************************************)

\* EPISODE_CONSTANTS
MIN_SCRIPT_LENGTH == 200

IN_PROGRESS_THRESHOLD == 20

\* The scripts calculateEpisodeProgress is applied to: the default heading
\* and lengths around both thresholds, one with a trailing blank.
StatusTexts ==
    {DefaultDocument,
     Str(0, "E", IN_PROGRESS_THRESHOLD, 0), Str(0, "E", IN_PROGRESS_THRESHOLD, MaxPad),
     Str(0, "E", IN_PROGRESS_THRESHOLD + 1, 0), Str(0, "E", MIN_SCRIPT_LENGTH, 0),
     Str(0, "E", MIN_SCRIPT_LENGTH + 1, 0)}

\* The scripts an editor save writes in the episode flow: one in progress,
\* one completed.
EpisodeTexts ==
    {Str(0, "E", IN_PROGRESS_THRESHOLD + 1, 0), Str(0, "E", MIN_SCRIPT_LENGTH + 1, MaxPad)}

\* Variants of EpisodeStatus.
EpisodeStatus_atLeast(scriptWordCount, hasStoryboard) ==
    IF hasStoryboard THEN "storyboard_completed"
    ELSE IF scriptWordCount >= MIN_SCRIPT_LENGTH THEN "script_completed"
    ELSE IF scriptWordCount >= IN_PROGRESS_THRESHOLD THEN "in_progress"
    ELSE "not_started"

\* calculateEpisodeProgress: the status from the trimmed script length and
\* the presence of the scene file.
EpisodeStatus(scriptWordCount, hasStoryboard) ==
    IF hasStoryboard THEN "storyboard_completed"
    ELSE IF scriptWordCount > MIN_SCRIPT_LENGTH THEN "script_completed"
    ELSE IF scriptWordCount > IN_PROGRESS_THRESHOLD THEN "in_progress"
    ELSE "not_started"

calculateEpisodeProgress(n, store, scenes) ==
    LET scriptWordCount == Length(Trim(store[n]))
        hasStoryboard == n \in scenes
    IN  [id |-> n, episodeNumber |-> n,
         status |-> EpisodeStatus(scriptWordCount, hasStoryboard),
         scriptWordCount |-> scriptWordCount, hasStoryboard |-> hasStoryboard,
         isLocked |-> FALSE, canAdvance |-> FALSE]

\* fileAPI.listEpisodes: the existing episode files from EP-n on, sorted by
\* path.
RECURSIVE listEpisodesFrom(_, _)
listEpisodesFrom(store, n) ==
    IF n \notin DOMAIN store THEN <<>>
    ELSE (IF store[n] # NoFile THEN <<n>> ELSE <<>>) \o listEpisodesFrom(store, n + 1)

listEpisodes(store) == listEpisodesFrom(store, 1)

\* The entry placed into a list sorted by episodeNumber, after the entries
\* that do not compare greater.
RECURSIVE InsertByEpisodeNumber(_, _)
InsertByEpisodeNumber(sorted, entry) ==
    IF sorted = <<>> THEN <<entry>>
    ELSE IF Head(sorted).episodeNumber - entry.episodeNumber > 0
         THEN <<entry>> \o sorted
         ELSE <<Head(sorted)>> \o InsertByEpisodeNumber(Tail(sorted), entry)

\* progressList.sort((a, b) => a.episodeNumber - b.episodeNumber), a stable
\* sort.
RECURSIVE SortByEpisodeNumber(_)
SortByEpisodeNumber(list) ==
    IF list = <<>> THEN <<>>
    ELSE InsertByEpisodeNumber(SortByEpisodeNumber(SubSeq(list, 1, Len(list) - 1)),
                               list[Len(list)])

isCompleted(status) == status \in {"script_completed", "storyboard_completed"}

\* Variant of SequentialLock.
SequentialLock_none(progressList, i) == FALSE

\* The sequential lock of entry i of the sorted list.
SequentialLock(progressList, i) ==
    IF i = 1 THEN FALSE ELSE ~isCompleted(progressList[i - 1].status)

\* refreshEpisodeProgress: the listed files, whether setEpisodeProgress is
\* reached, and the list it returns.
refreshEpisodeProgress(store, scenes) ==
    LET currentEpisodes == listEpisodes(store)
        progressList ==
            SortByEpisodeNumber([i \in DOMAIN currentEpisodes |->
                calculateEpisodeProgress(currentEpisodes[i], store, scenes)])
        progressWithLock ==
            [i \in DOMAIN progressList |->
                [progressList[i] EXCEPT
                    !.isLocked = SequentialLock(progressList, i),
                    !.canAdvance = isCompleted(progressList[i].status)]]
    IN  IF Len(currentEpisodes) = 0
        THEN [episodes |-> currentEpisodes, set |-> FALSE, list |-> <<>>]
        ELSE [episodes |-> currentEpisodes, set |-> TRUE, list |-> progressWithLock]

\* The state updates of one refreshEpisodeProgress call on the given store.
Refresh(store, scenes) ==
    LET r == refreshEpisodeProgress(store, scenes)
    IN  /\ episodes' = r.episodes
        /\ episodeProgress' = IF r.set THEN r.list ELSE episodeProgress

\* findIndex(ep => ep.id === path): 0 when there is none.
findIndex(list, path) ==
    IF \E i \in DOMAIN list : list[i].id = path
    THEN CHOOSE i \in DOMAIN list : list[i].id = path /\ \A j \in 1..(i - 1) : list[j].id # path
    ELSE 0

EpisodeOp(op, refreshed) == [op |-> op, refreshed |-> refreshed]

\* What no episode handler writes.
EpisodeFrame ==
    UNCHANGED <<files, isTyping, chatPc, turn, calls, lastAligner, turnMessages,
                turnOutcome, currentStage, autoFix, offeredAction, smVars, lockVars,
                promptVars, extraVars, autoAdvancePreference>>

\* refreshEpisodeProgress on its own (the mount effect, a project switch).
Ep_refreshEpisodeProgress ==
    /\ Refresh(episodeFiles, sceneFiles)
    /\ epLastOp' = EpisodeOp("refreshEpisodeProgress", TRUE)
    /\ UNCHANGED <<episodeFiles, sceneFiles, currentEpisodePath, advanceModalState,
                   agentState, unlockedStages>>
    /\ EpisodeFrame

\* The episode editor saves text (ScriptEditor.handleSave) and reports it;
\* App.handleEditorStatusChange calls onEpisodeSaved.
Ep_onEpisodeSaved(text) ==
    LET store == [episodeFiles EXCEPT ![currentEpisodePath] = text]
        advance == currentStage = "production" /\ autoAdvancePreference # "disabled"
        r == refreshEpisodeProgress(store, sceneFiles)
        progressList == r.list
        currentIndex == findIndex(progressList, currentEpisodePath)
        moves == /\ advance
                 /\ currentIndex # 0
                 /\ isCompleted(progressList[currentIndex].status)
                 /\ currentIndex < Len(progressList)
    IN  /\ currentStage = "production"
        /\ episodeFiles' = store
        /\ unlockedStages' = checkUnlockedStages(files)
        /\ IF advance
           THEN Refresh(store, sceneFiles)
           ELSE UNCHANGED <<episodes, episodeProgress>>
        /\ currentEpisodePath' =
              IF moves /\ autoAdvancePreference = "immediate"
              THEN progressList[currentIndex + 1].id
              ELSE currentEpisodePath
        /\ advanceModalState' =
              IF moves /\ autoAdvancePreference = "confirm"
              THEN [isOpen |-> TRUE,
                    currentEpisodeId |-> progressList[currentIndex].id,
                    nextEpisodePath |-> progressList[currentIndex + 1].id]
              ELSE advanceModalState
        /\ epLastOp' = EpisodeOp("onEpisodeSaved", advance)
        /\ UNCHANGED <<sceneFiles, agentState>>
        /\ EpisodeFrame

\* confirmAdvance, the modal's confirm button.
Ep_confirmAdvance ==
    LET currentIndex == findIndex(episodeProgress, currentEpisodePath)
        nextNum == Len(episodeProgress) + 1
        creates == currentIndex # 0 /\ currentIndex >= Len(episodeProgress)
        store == [episodeFiles EXCEPT ![nextNum] = DefaultDocument]
    IN  /\ advanceModalState.isOpen
        /\ creates => nextNum <= MaxEpisodes
        /\ IF creates
           THEN /\ episodeFiles' = store
                /\ Refresh(store, sceneFiles)
                /\ currentEpisodePath' = nextNum
           ELSE /\ UNCHANGED <<episodeFiles, episodes, episodeProgress>>
                /\ currentEpisodePath' =
                      IF currentIndex # 0 THEN episodeProgress[currentIndex + 1].id
                      ELSE currentEpisodePath
        /\ advanceModalState' = [advanceModalState EXCEPT !.isOpen = FALSE]
        /\ epLastOp' = EpisodeOp("confirmAdvance", creates)
        /\ UNCHANGED <<sceneFiles, agentState, unlockedStages>>
        /\ EpisodeFrame

\* cancelAdvance, the modal's cancel button.
Ep_cancelAdvance ==
    /\ advanceModalState.isOpen
    /\ advanceModalState' = [advanceModalState EXCEPT !.isOpen = FALSE]
    /\ epLastOp' = EpisodeOp("cancelAdvance", FALSE)
    /\ UNCHANGED <<episodeFiles, sceneFiles, episodes, episodeProgress,
                   currentEpisodePath, agentState, unlockedStages>>
    /\ EpisodeFrame

\* handleCreateEpisode, the episode map's create button (behind the modal
\* while it is open).
Ep_handleCreateEpisode ==
    LET nextNum == Len(episodes) + 1
        store == [episodeFiles EXCEPT ![nextNum] = DefaultDocument]
    IN  /\ ~advanceModalState.isOpen
        /\ nextNum <= MaxEpisodes
        /\ episodeFiles' = store
        /\ Refresh(store, sceneFiles)
        /\ currentEpisodePath' = nextNum
        /\ epLastOp' = EpisodeOp("handleCreateEpisode", TRUE)
        /\ UNCHANGED <<sceneFiles, advanceModalState, agentState, unlockedStages>>
        /\ EpisodeFrame

\* EpisodeLevelMap: a click on an episode that the list shows unlocked.
Ep_selectEpisode(n) ==
    /\ ~advanceModalState.isOpen
    /\ \E i \in DOMAIN episodeProgress :
          episodeProgress[i].id = n /\ ~episodeProgress[i].isLocked
    /\ n # currentEpisodePath
    /\ currentEpisodePath' = n
    /\ epLastOp' = EpisodeOp("setCurrentEpisodePath", FALSE)
    /\ UNCHANGED <<episodeFiles, sceneFiles, episodes, episodeProgress,
                   advanceModalState, agentState, unlockedStages>>
    /\ EpisodeFrame

\* runDirectorAgent on the episode in the workspace; ok: directorBreakdown
\* returned scenes.
Ep_runDirectorAgent(ok) ==
    /\ ~advanceModalState.isOpen
    /\ IF ok /\ episodeFiles[currentEpisodePath] # NoFile
       THEN /\ sceneFiles' = sceneFiles \cup {currentEpisodePath}
            /\ Refresh(episodeFiles, sceneFiles')
            /\ agentState' = [agentState EXCEPT !.status = "success"]
            /\ epLastOp' = EpisodeOp("runDirectorAgent", TRUE)
       ELSE /\ agentState' = [agentState EXCEPT !.status = "failed"]
            /\ epLastOp' = EpisodeOp("runDirectorAgent", FALSE)
            /\ UNCHANGED <<sceneFiles, episodes, episodeProgress>>
    /\ UNCHANGED <<episodeFiles, currentEpisodePath, advanceModalState, unlockedStages>>
    /\ EpisodeFrame

EpisodeNext ==
    \/ Ep_refreshEpisodeProgress
    \/ \E text \in EpisodeTexts : Ep_onEpisodeSaved(text)
    \/ Ep_confirmAdvance
    \/ Ep_cancelAdvance
    \/ Ep_handleCreateEpisode
    \/ \E n \in 1..MaxEpisodes : Ep_selectEpisode(n)
    \/ \E ok \in BOOLEAN : Ep_runDirectorAgent(ok)

\* A new project in stage production after the mount effects
\* (checkUnlockedStages, refreshEpisodeProgress), with the auto-advance
\* preference read from localStorage.
EpisodeInit ==
    /\ LockIdle
    /\ PromptIdle
    /\ ExtraIdle
    /\ files = NewProjectFiles
    /\ isTyping = FALSE
    /\ agentState = [status |-> "idle", action |-> NoAction]
    /\ unlockedStages = checkUnlockedStages(files)
    /\ chatPc = "idle"
    /\ turn = NoTurn
    /\ calls = NoCalls
    /\ lastAligner = NoAlignerCall
    /\ turnMessages = <<>>
    /\ turnOutcome = None
    /\ currentStage = "production"
    /\ autoFix = NoAutoFix
    /\ offeredAction = NoAction
    /\ SMInit
    /\ smStage = "world"
    /\ episodeFiles = NewEpisodeFiles
    /\ sceneFiles = {}
    /\ episodes = refreshEpisodeProgress(episodeFiles, sceneFiles).episodes
    /\ episodeProgress = refreshEpisodeProgress(episodeFiles, sceneFiles).list
    /\ currentEpisodePath = 1
    /\ advanceModalState = ClosedModal
    /\ autoAdvancePreference \in {"disabled", "confirm", "immediate"}
    /\ epLastOp = EpisodeOp("refreshEpisodeProgress", TRUE)

SpecEpisode == EpisodeInit /\ [][EpisodeNext]_vars

\* The save step of handleSendMessage after the Aligner passed, for the
\* target file episodes/EP-n.md: an existing file is updated; a missing one
\* is created, the progress refreshed and the episode made current.
App_saveEpisodeOnPass(n, newContent) ==
    LET store == [episodeFiles EXCEPT ![n] = newContent]
    IN  /\ ~advanceModalState.isOpen
        /\ episodeFiles' = store
        /\ IF episodeFiles[n] = NoFile
           THEN /\ Refresh(store, sceneFiles)
                /\ currentEpisodePath' = n
           ELSE UNCHANGED <<episodes, episodeProgress, currentEpisodePath>>
        /\ epLastOp' = EpisodeOp("handleSendMessage", episodeFiles[n] = NoFile)
        /\ UNCHANGED <<sceneFiles, advanceModalState, agentState, unlockedStages>>
        /\ EpisodeFrame

\* The episode handlers together with chat saves into episode files.
CreateNext ==
    \/ EpisodeNext
    \/ \E n \in 1..MaxEpisodes, newContent \in EpisodeTexts :
          App_saveEpisodeOnPass(n, newContent)

SpecCreate == EpisodeInit /\ [][CreateNext]_vars

\* calculateEpisodeProgress and refreshEpisodeProgress as functions of the
\* store: any episode files EP-01..EP-k with any scripts and scene files,
\* the list not computed yet; the one step computes it.
StatusInit ==
    /\ LockIdle
    /\ PromptIdle
    /\ ExtraIdle
    /\ files = NewProjectFiles
    /\ isTyping = FALSE
    /\ agentState = [status |-> "idle", action |-> NoAction]
    /\ unlockedStages = checkUnlockedStages(files)
    /\ chatPc = "idle"
    /\ turn = NoTurn
    /\ calls = NoCalls
    /\ lastAligner = NoAlignerCall
    /\ turnMessages = <<>>
    /\ turnOutcome = None
    /\ currentStage = "production"
    /\ autoFix = NoAutoFix
    /\ offeredAction = NoAction
    /\ SMInit
    /\ smStage = "world"
    /\ \E k \in 1..MaxEpisodes :
          /\ episodeFiles \in [1..MaxEpisodes -> StatusTexts \cup {NoFile}]
          /\ \A n \in 1..MaxEpisodes : episodeFiles[n] # NoFile <=> n <= k
          /\ sceneFiles \in SUBSET (1..k)
    /\ episodes = <<>>
    /\ episodeProgress = <<>>
    /\ currentEpisodePath = 1
    /\ advanceModalState = ClosedModal
    /\ autoAdvancePreference = "disabled"
    /\ epLastOp = NoEpisodeOp

StatusNext == Ep_refreshEpisodeProgress

SpecStatus == StatusInit /\ [][StatusNext]_vars

-----------------------------------------------------------------------------
(***************************************************************************)
(* token-utils.ts: truncateContent and assembleContext.  A document is     *)
(* represented by its length; the result records, per section, the length  *)
(* of the content placed in it and how much of that is document text.      *)
(***************************************************************************)

\* Largest maxTotalChars passed to assembleContext.
MaxChars == 45

\* The lengths of the documents of a context, besides 0 (no document).
ShortDoc == 5

LongDoc == 40

\* CONTEXT_CONSTANTS.RATIOS and .TRUNCATE, in tenths.
RATIO_CURRENT_FILE == 4

RATIO_OUTLINE == 2

RATIO_CHARACTERS == 2

HEAD_RATIO == 2

TAIL_RATIO == 8

\* Math.floor(n * ratio) for a ratio given in tenths; the double product
\* floors to the same integer for every n up to 200000.
FloorRatio(n, tenths) == (n * tenths) \div 10

\* The length of "\n\n... [Content Truncated] ...\n\n".
TRUNCATION_MARKER == 31

\* The lengths of the text assembleContext puts around each section's
\* content; the current file's frame also holds currentFileName.
CURRENT_FILE_FRAME == 58

OUTLINE_FRAME == 20

CHARACTERS_FRAME == 23

WORLD_FRAME == 22

FileNames == {"world.md", "characters.md", "outline.md", "episodes/EP-01.md"}

NameLength(name) ==
    CASE name = "world.md" -> 8
      [] name = "characters.md" -> 13
      [] name = "outline.md" -> 10
      [] name = "episodes/EP-01.md" -> 17
      [] OTHER -> 0

DocLengths == {0, ShortDoc, LongDoc}

Contexts ==
    [currentFileName : FileNames, currentFileContent : DocLengths,
     world : DocLengths, characters : DocLengths, outline : DocLengths]

\* A section's content: its length, the document text in it, whether the
\* marker was inserted.
Section(length, text, truncated) ==
    [included |-> TRUE, length |-> length, text |-> text, truncated |-> truncated]

NoSection == [included |-> FALSE, length |-> 0, text |-> 0, truncated |-> FALSE]

Min(a, b) == IF a <= b THEN a ELSE b

\* Variant of truncateContent.
truncateContent_whole(content, maxChars) == Section(content, content, FALSE)

\* truncateContent: the content as it is when it fits, else its head, the
\* marker and its tail.
truncateContent(content, maxChars) ==
    IF content <= maxChars
    THEN Section(content, content, FALSE)
    ELSE LET head == Min(content, FloorRatio(maxChars, HEAD_RATIO))
             tail == Min(content, FloorRatio(maxChars, TAIL_RATIO))
         IN  Section(head + TRUNCATION_MARKER + tail, head + tail, TRUE)

assembleContext(context, maxTotalChars) ==
    LET currentFileName == context.currentFileName
        current ==
            IF context.currentFileContent > 0
            THEN truncateContent(context.currentFileContent,
                                 FloorRatio(maxTotalChars, RATIO_CURRENT_FILE))
            ELSE NoSection
        budget1 == maxTotalChars - current.length
        outline ==
            IF context.outline > 0 /\ budget1 > 0 /\ currentFileName # "outline.md"
            THEN truncateContent(context.outline, FloorRatio(maxTotalChars, RATIO_OUTLINE))
            ELSE NoSection
        budget2 == budget1 - outline.length
        characters ==
            IF context.characters > 0 /\ budget2 > 0 /\ currentFileName # "characters.md"
            THEN truncateContent(context.characters,
                                 FloorRatio(maxTotalChars, RATIO_CHARACTERS))
            ELSE NoSection
        budget3 == budget2 - characters.length
        world ==
            IF context.world > 0 /\ budget3 > 0 /\ currentFileName # "world.md"
            THEN truncateContent(context.world, budget3)
            ELSE NoSection
        framed(section, frame) == IF section.included THEN frame + section.length ELSE 0
    IN  [called |-> TRUE, maxTotalChars |-> maxTotalChars,
         current |-> current, outline |-> outline, characters |-> characters,
         world |-> world,
         length |-> framed(current, CURRENT_FILE_FRAME + NameLength(currentFileName))
                    + framed(outline, OUTLINE_FRAME)
                    + framed(characters, CHARACTERS_FRAME)
                    + framed(world, WORLD_FRAME)]

\* What no prompt-assembly step writes.
PromptFrame ==
    UNCHANGED <<files, isTyping, agentState, unlockedStages, chatPc, turn, calls,
                lastAligner, turnMessages, turnOutcome, appVars, smVars, lockVars,
                epVars, extraVars>>

\* One assembleContext call on the context.
Assemble(maxTotalChars) ==
    /\ assembled' = assembleContext(projectContext, maxTotalChars)
    /\ UNCHANGED <<projectContext, chatCall, historyMessages>>
    /\ PromptFrame

AssembleNext == \E maxTotalChars \in 0..MaxChars : Assemble(maxTotalChars)

\* Any context, nothing assembled yet.
AssembleInit ==
    /\ MountedIdle
    /\ SMInit
    /\ smStage = "world"
    /\ ExtraIdle
    /\ projectContext \in Contexts
    /\ assembled = NoAssembled
    /\ chatCall = NoChatCall
    /\ historyMessages = NoWindow

SpecAssemble == AssembleInit /\ [][AssembleNext]_vars

-----------------------------------------------------------------------------
(***************************************************************************)
(* AgentSystem.writerChat: the sliding window over the history.  A text is *)
(* represented by its length.                                              *)
(***************************************************************************)

\* Longest history given to writerChat.
MaxHistory == 3

\* Largest number of characters left for the history before the user input
\* is subtracted.
MaxRemaining == 30

\* CONTEXT_CONSTANTS.TOKEN_BUDGET
MAX_TOTAL_CHARS == 30000

RESERVED_FOR_OUTPUT == 8000

\* The lengths of "[系统通知] ✅ " and of "\n详情: ".
NOTICE_PREFIX == 9

DETAIL_PREFIX == 5

NoLog == [present |-> FALSE]

ActivityLog(status, task, validationFeedback) ==
    [present |-> TRUE, status |-> status, task |-> task,
     validationFeedback |-> validationFeedback]

TextContent(length) == [kind |-> "text", length |-> length]

AgentMessage(role, length, activityLog) ==
    [role |-> role, content |-> TextContent(length), activityLog |-> activityLog]

\* The messages of a history: user and assistant texts, a system message
\* without a log, system messages with a log (with and without feedback).
HistoryMessageSet ==
    {AgentMessage("user", 1, NoLog), AgentMessage("user", 2, NoLog),
     AgentMessage("assistant", 2, NoLog), AgentMessage("system", 1, NoLog),
     AgentMessage("system", 1, ActivityLog("success", 1, 0)),
     AgentMessage("system", 1, ActivityLog("failed", 1, 1))}

Histories == UNION {[1..n -> HistoryMessageSet] : n \in 0..MaxHistory}

isSystemLog(msg) == msg.role = "system" /\ msg.activityLog.present

\* The line sent for a message: the notice built from the activityLog of a
\* system log, else the message's own content.
SentContent(msg) ==
    IF isSystemLog(msg)
    THEN [kind |-> "notice",
          success |-> msg.activityLog.status = "success",
          task |-> msg.activityLog.task,
          validationFeedback |-> msg.activityLog.validationFeedback,
          length |-> NOTICE_PREFIX + msg.activityLog.task
                     + (IF msg.activityLog.validationFeedback > 0
                        THEN DETAIL_PREFIX + msg.activityLog.validationFeedback
                        ELSE 0)]
    ELSE msg.content

SentRole(msg) == IF isSystemLog(msg) THEN "assistant" ELSE msg.role

\* Variant of HistoryFits.
HistoryFits_atMost(currentHistorySize, contentLen, availableChars) ==
    currentHistorySize + contentLen <= availableChars

\* currentHistorySize + contentLen < availableChars
HistoryFits(currentHistorySize, contentLen, availableChars) ==
    currentHistorySize + contentLen < availableChars

availableChars(call) ==
    MAX_TOTAL_CHARS - RESERVED_FOR_OUTPUT - call.systemPrompt - call.userInput

\* The loop from index i down: unshift while the message fits, break at the
\* first that does not.
RECURSIVE HistoryWindow(_, _, _, _, _)
HistoryWindow(history, i, currentHistorySize, available, window) ==
    IF i = 0 THEN window
    ELSE LET content == SentContent(history[i])
         IN  IF HistoryFits(currentHistorySize, content.length, available)
             THEN HistoryWindow(history, i - 1, currentHistorySize + content.length,
                                available,
                                <<[role |-> SentRole(history[i]), content |-> content]>>
                                    \o window)
             ELSE window

\* writerChat builds the window for its call.
BuildWindow ==
    /\ ~historyMessages.built
    /\ historyMessages' =
          [built |-> TRUE,
           messages |-> HistoryWindow(chatCall.history, Len(chatCall.history), 0,
                                      availableChars(chatCall), <<>>)]
    /\ UNCHANGED <<projectContext, assembled, chatCall>>
    /\ PromptFrame

WindowNext == BuildWindow

\* Any history, a system prompt that leaves 0..MaxRemaining characters, a
\* user input of 0 or 1 characters.
WindowInit ==
    /\ MountedIdle
    /\ SMInit
    /\ smStage = "world"
    /\ ExtraIdle
    /\ projectContext = NoContext
    /\ assembled = NoAssembled
    /\ \E history \in Histories, remaining \in 0..MaxRemaining, userInput \in {0, 1} :
          chatCall = [history |-> history,
                      systemPrompt |-> MAX_TOTAL_CHARS - RESERVED_FOR_OUTPUT - remaining,
                      userInput |-> userInput]
    /\ historyMessages = NoWindow

SpecWindow == WindowInit /\ [][WindowNext]_vars

\* The content of the message typed in the turn in progress.
InputContent(length) == [kind |-> "input", length |-> length]

\* The list writerChat sends: the system prompt, the window, the user input.
WriterMessages(call, window) ==
    <<[role |-> "system", content |-> [kind |-> "systemPrompt",
                                       length |-> call.systemPrompt]]>>
    \o window
    \o <<[role |-> "user", content |-> InputContent(call.userInput)]>>

\* handleSendMessage up to the request of writerChat: the user message is
\* appended to the project's messages, and writerChat is called with the
\* appended list as history and the typed text as user input.
Send_handleSendMessage(length) ==
    LET currentMessages == chatCall.projectChats
        userMsg == [role |-> "user", content |-> InputContent(length),
                    activityLog |-> NoLog]
        updatedMessages == Append(currentMessages, userMsg)
        call == [sent |-> TRUE, projectChats |-> updatedMessages,
                 history |-> updatedMessages,
                 systemPrompt |-> chatCall.systemPrompt, userInput |-> length]
    IN  /\ ~chatCall.sent
        /\ chatCall' = call
        /\ historyMessages' =
              [built |-> TRUE,
               messages |-> HistoryWindow(call.history, Len(call.history), 0,
                                          availableChars(call), <<>>)]
        /\ UNCHANGED <<projectContext, assembled>>
        /\ PromptFrame

SendNext == \E length \in {1, 2} : Send_handleSendMessage(length)

\* Any earlier messages of the project, a system prompt that leaves
\* 0..MaxRemaining characters, nothing sent yet.
SendInit ==
    /\ MountedIdle
    /\ SMInit
    /\ smStage = "world"
    /\ ExtraIdle
    /\ projectContext = NoContext
    /\ assembled = NoAssembled
    /\ \E history \in Histories, remaining \in 0..MaxRemaining :
          chatCall = [sent |-> FALSE, projectChats |-> history,
                      systemPrompt |-> MAX_TOTAL_CHARS - RESERVED_FOR_OUTPUT - remaining]
    /\ historyMessages = NoWindow

SpecSend == SendInit /\ [][SendNext]_vars

-----------------------------------------------------------------------------
(***************************************************************************)
(* AgentSystem.alignerCheck and parseApiError.  A reply is a sequence of   *)
(* tokens: "STATUS:" for the status label 检查状态：, the words PASS and    *)
(* FAIL, other text.                                                       *)
(***************************************************************************)

\* Longest Aligner reply, in tokens.
MaxReply == 4

ReplyTokens == {"STATUS:", "PASS", "FAIL", "x"}

Replies == UNION {[1..n -> ReplyTokens] : n \in 0..MaxReply}

\* String.prototype.includes for a word and for a label followed by a word.
IncludesWord(text, word) == \E i \in DOMAIN text : text[i] = word

IncludesStatus(text, word) ==
    \E i \in DOMAIN text : i < Len(text) /\ text[i] = "STATUS:" /\ text[i + 1] = word

\* The errors a provider call rejects with: status, code and the keyword
\* its message holds.
ApiErrors ==
    [status : {401, 429, 500}, code : {"ECONNABORTED", "none"},
     message : {"Unauthorized", "rate", "timeout", "network", "fetch", "other"}]

parseApiError(err) ==
    IF err.status = 401 \/ err.message = "Unauthorized" THEN "UNAUTHORIZED"
    ELSE IF err.status = 429 \/ err.message = "rate" THEN "RATE_LIMIT"
    ELSE IF err.code = "ECONNABORTED" \/ err.message = "timeout" THEN "TIMEOUT"
    ELSE IF err.message \in {"network", "fetch"} THEN "NETWORK"
    ELSE "GENERIC"

\* The success flag alignerCheck computes from the reply.
AlignerSuccess(text) ==
    \/ IncludesStatus(text, "PASS")
    \/ /\ IncludesWord(text, "PASS")
       /\ ~IncludesWord(text, "FAIL")
       /\ ~IncludesStatus(text, "FAIL")

\* alignerCheck: getAI throws without a key; a reply gives success and the
\* reply as feedback; a rejected call gives the classified message.
alignerCheck(call) ==
    IF ~call.hasKey
    THEN [returned |-> TRUE, threw |-> TRUE, success |-> FALSE,
          feedback |-> [kind |-> "none"]]
    ELSE IF call.outcome.kind = "reply"
    THEN [returned |-> TRUE, threw |-> FALSE,
          success |-> AlignerSuccess(call.outcome.text),
          feedback |-> [kind |-> "text", text |-> call.outcome.text]]
    ELSE [returned |-> TRUE, threw |-> FALSE, success |-> FALSE,
          feedback |-> [kind |-> "error",
                        message |-> parseApiError(call.outcome.error)]]

\* What no function call writes.
LibFrame ==
    UNCHANGED <<files, isTyping, agentState, unlockedStages, chatPc, turn, calls,
                lastAligner, turnMessages, turnOutcome, appVars, smVars, lockVars,
                epVars, promptVars, restVars>>

Lib_alignerCheck ==
    /\ fnCall.fn = "alignerCheck"
    /\ ~fnResult.returned
    /\ fnResult' = alignerCheck(fnCall)
    /\ UNCHANGED fnCall
    /\ LibFrame

\* Everything but the function call idle.
LibInit ==
    /\ MountedIdle
    /\ PromptIdle
    /\ SMInit
    /\ smStage = "world"
    /\ fnResult = NoResult
    /\ RestIdle

AlignerInit ==
    /\ LibInit
    /\ \E hasKey \in BOOLEAN :
          \/ \E text \in Replies :
                fnCall = [fn |-> "alignerCheck", hasKey |-> hasKey,
                          outcome |-> [kind |-> "reply", text |-> text]]
          \/ \E error \in ApiErrors :
                fnCall = [fn |-> "alignerCheck", hasKey |-> hasKey,
                          outcome |-> [kind |-> "error", error |-> error]]

SpecAligner == AlignerInit /\ [][Lib_alignerCheck]_vars

-----------------------------------------------------------------------------
(***************************************************************************)
(* agent-response-parser.ts: parseAgentResponse.  A text is a sequence of  *)
(* tokens:                                                                 *)
(*   "t"    plain text without braces, quotes or fences                    *)
(*   "{" "}" braces                                                        *)
(*   "m"    a member "message": "Hi"                                       *)
(*   "mq"   the cut member "message": "Hi  (its string not closed)         *)
(*   "s:"   the key "saveRequest":                                         *)
(*   "f"    the members "targetFile": "a", "content": "b"                  *)
(*   "fence" a markdown fence, with or without the word json              *)
(* Separating commas and blanks are not represented.                       *)
(***************************************************************************)

\* Longest text given to parseAgentResponse, in tokens.
MaxText == 5

TextTokens == {"t", "{", "}", "m", "mq", "s:", "f", "fence"}

RawContents == UNION {[1..n -> TextTokens] : n \in 0..MaxText}

NoJson == [found |-> FALSE]

JsonString(text) == [found |-> TRUE, text |-> text]

NotParsed == [ok |-> FALSE, end |-> 0, message |-> FALSE, saveRequest |-> FALSE,
              fields |-> FALSE]

\* JSON.parse of the members of an object from token i to its closing brace:
\* whether they parse, where the brace is, and which members the object has.
RECURSIVE ParseMembers(_, _)
ParseMembers(text, i) ==
    IF i > Len(text) THEN NotParsed
    ELSE IF text[i] = "}"
    THEN [ok |-> TRUE, end |-> i, message |-> FALSE, saveRequest |-> FALSE,
          fields |-> FALSE]
    ELSE IF text[i] \in {"m", "f"}
    THEN LET rest == ParseMembers(text, i + 1)
         IN  IF ~rest.ok THEN NotParsed
             ELSE [rest EXCEPT !.message = @ \/ text[i] = "m",
                               !.fields = @ \/ text[i] = "f"]
    ELSE IF text[i] = "s:" /\ i < Len(text) /\ text[i + 1] = "{"
    THEN LET inner == ParseMembers(text, i + 2)
             rest == ParseMembers(text, inner.end + 1)
         IN  IF ~inner.ok \/ ~rest.ok THEN NotParsed
             ELSE [rest EXCEPT !.saveRequest = TRUE]
    ELSE NotParsed

\* JSON.parse: the text is one object and nothing else.
JsonParse(text) ==
    IF Len(text) >= 2 /\ text[1] = "{"
    THEN LET r == ParseMembers(text, 2)
         IN  IF r.ok /\ r.end = Len(text) THEN r ELSE NotParsed
    ELSE NotParsed

\* The loop of extractJsonString from index i: the first brace pair that
\* brings depth back to 0 after a start was set.
RECURSIVE OutermostBraces(_, _, _, _)
OutermostBraces(text, i, depth, start) ==
    IF i > Len(text) THEN NoJson
    ELSE IF text[i] = "{"
    THEN OutermostBraces(text, i + 1, depth + 1, IF depth = 0 THEN i ELSE start)
    ELSE IF text[i] = "}"
    THEN IF depth - 1 = 0 /\ start # 0
         THEN JsonString(SubSeq(text, start, i))
         ELSE OutermostBraces(text, i + 1, depth - 1, start)
    ELSE OutermostBraces(text, i + 1, depth, start)

\* The match of the fenced-block pattern: the leftmost fence followed by a
\* brace, up to the first closing brace that a fence follows.
FencedBlock(text) ==
    LET Matches(i, j) == /\ i + 1 < j /\ j < Len(text)
                         /\ text[i] = "fence" /\ text[i + 1] = "{"
                         /\ text[j] = "}" /\ text[j + 1] = "fence"
        starts == {i \in DOMAIN text : \E j \in DOMAIN text : Matches(i, j)}
    IN  IF starts = {} THEN NoJson
        ELSE LET i == CHOOSE a \in starts : \A b \in starts : a <= b
                 j == CHOOSE a \in DOMAIN text :
                          Matches(i, a) /\ \A b \in DOMAIN text : Matches(i, b) => a <= b
             IN  JsonString(SubSeq(text, i + 1, j))

extractJsonString(text) ==
    IF FencedBlock(text).found THEN FencedBlock(text)
    ELSE IF OutermostBraces(text, 1, 0, 0).found THEN OutermostBraces(text, 1, 0, 0)
    ELSE IF Len(text) > 0 /\ text[1] = "{" /\ text[Len(text)] = "}" THEN JsonString(text)
    ELSE NoJson

\* cleanJsonOutput: the fences removed, cut to start at the first opening
\* brace and to end at the last closing brace.
cleanJsonOutput(text) ==
    LET cleaned == SelectSeq(text, LAMBDA tok : tok # "fence")
        opens == {i \in DOMAIN cleaned : cleaned[i] = "{"}
        fromStart == IF opens = {} THEN cleaned
                     ELSE SubSeq(cleaned, CHOOSE i \in opens : \A k \in opens : i <= k,
                                 Len(cleaned))
        closes == {i \in DOMAIN fromStart : fromStart[i] = "}"}
    IN  IF closes = {} THEN fromStart
        ELSE SubSeq(fromStart, 1, CHOOSE i \in closes : \A k \in closes : k <= i)

\* extractSaveRequestFromRegex: the key followed by a brace, up to the first
\* closing brace; the fragment parsed, else searched for both fields.
extractSaveRequestFromRegex(content) ==
    LET Matches(i, j) == /\ i + 1 < j
                         /\ content[i] = "s:" /\ content[i + 1] = "{" /\ content[j] = "}"
        starts == {i \in DOMAIN content : \E j \in DOMAIN content : Matches(i, j)}
    IN  IF starts = {} THEN FALSE
        ELSE LET i == CHOOSE a \in starts : \A b \in starts : a <= b
                 j == CHOOSE a \in DOMAIN content :
                          Matches(i, a) /\ \A b \in DOMAIN content : Matches(i, b) => a <= b
                 jsonFragment == SubSeq(content, i + 1, j)
             IN  \/ JsonParse(jsonFragment).ok
                 \/ \E k \in DOMAIN jsonFragment : jsonFragment[k] = "f"

\* extractMessageFromRaw: the message of the cleaned text when it parses.
extractMessageFromRaw(rawContent) ==
    LET jsonStr == cleanJsonOutput(rawContent)
    IN  Len(jsonStr) > 0 /\ JsonParse(jsonStr).ok /\ JsonParse(jsonStr).message

\* Variant of HasStandardFields.
HasStandardFields_any(parsed) == TRUE

\* typeof parsed.message === 'string' || parsed.saveRequest
HasStandardFields(parsed) == parsed.message \/ parsed.saveRequest

RawMessage(rawContent) == [kind |-> "raw", text |-> rawContent]

ParsedMessage(present) == [kind |-> IF present THEN "parsed" ELSE "undefined"]

parseAgentResponse(rawContent) ==
    LET extracted == extractJsonString(rawContent)
        potentialJson == cleanJsonOutput(rawContent)
        jsonStr == IF extracted.found THEN extracted
                   ELSE IF Len(potentialJson) > 0 /\ potentialJson[1] = "{"
                        THEN JsonString(potentialJson)
                        ELSE NoJson
        parsed == IF jsonStr.found THEN JsonParse(jsonStr.text) ELSE NotParsed
        fallbackSave == extractSaveRequestFromRegex(rawContent)
    IN  IF jsonStr.found /\ parsed.ok /\ HasStandardFields(parsed)
        THEN [returned |-> TRUE, threw |-> FALSE, type |-> "parsed.type",
              message |-> ParsedMessage(parsed.message),
              saveRequest |-> parsed.saveRequest]
        ELSE IF fallbackSave
        THEN [returned |-> TRUE, threw |-> FALSE, type |-> "save",
              message |-> IF extractMessageFromRaw(rawContent)
                          THEN ParsedMessage(TRUE) ELSE RawMessage(rawContent),
              saveRequest |-> TRUE]
        ELSE [returned |-> TRUE, threw |-> FALSE, type |-> "chat",
              message |-> RawMessage(rawContent), saveRequest |-> FALSE]

Lib_parseAgentResponse ==
    /\ fnCall.fn = "parseAgentResponse"
    /\ ~fnResult.returned
    /\ fnResult' = parseAgentResponse(fnCall.rawContent)
    /\ UNCHANGED fnCall
    /\ LibFrame

ParserInit ==
    /\ LibInit
    /\ \E rawContent \in RawContents :
          fnCall = [fn |-> "parseAgentResponse", rawContent |-> rawContent]

SpecParser == ParserInit /\ [][Lib_parseAgentResponse]_vars

-----------------------------------------------------------------------------
(***************************************************************************)
(* extractPartialMessage on the growing prefixes of a streamed document.   *)
(* A document is a sequence of characters:                                 *)
(*   "{" "}" ":"  structure       "key"  the whole key "message" in quotes *)
(*   "q"    a double quote        "bs"   a backslash                       *)
(*   "a"    a letter              "n"    the letter n, with a backslash    *)
(*   "sp"   a blank                      before it the escape of a line    *)
(*   "tick" a backtick                   break ("lf" once decoded)         *)
(* The escapes of tab and carriage return go the way of the line break.    *)
(***************************************************************************)

\* Longest message value, in decoded characters.
MaxMessage == 3

MessageChars == {"a", "sp", "tick", "lf", "q", "bs"}

MessageValues == UNION {[1..n -> MessageChars] : n \in 0..MaxMessage}

\* JSON.stringify of one character of a string.
EncodeChar(c) ==
    CASE c = "lf" -> <<"bs", "n">>
      [] c = "q"  -> <<"bs", "q">>
      [] c = "bs" -> <<"bs", "bs">>
      [] OTHER    -> <<c>>

RECURSIVE EncodeString(_)
EncodeString(s) ==
    IF s = <<>> THEN <<>> ELSE EncodeChar(Head(s)) \o EncodeString(Tail(s))

\* The document {"message":"s"}.
MessageDocument(s) == <<"{", "key", ":", "q">> \o EncodeString(s) \o <<"q", "}">>

Thinking == [thinking |-> TRUE, text |-> <<>>]

Shown(text) == [thinking |-> FALSE, text |-> text]

\* String.prototype.trim on a sequence of characters.
RECURSIVE TrimChars(_)
TrimChars(s) ==
    IF s = <<>> THEN s
    ELSE IF Head(s) = "sp" THEN TrimChars(Tail(s))
    ELSE IF s[Len(s)] = "sp" THEN TrimChars(SubSeq(s, 1, Len(s) - 1))
    ELSE s

StartsWithFence(s) == Len(s) >= 3 /\ \A i \in 1..3 : s[i] = "tick"

EndsWithFence(s) == Len(s) >= 3 /\ \A i \in (Len(s) - 2)..Len(s) : s[i] = "tick"

\* if (cleanStr.endsWith(fence)) cleanStr = cleanStr.slice(0, -3).trim()
StripClosingFence(s) ==
    IF EndsWithFence(s) THEN TrimChars(SubSeq(s, 1, Len(s) - 3)) ELSE s

\* indexOf: the first position of character c in s, 0 when there is none.
IndexOf(s, c) ==
    IF \E i \in DOMAIN s : s[i] = c
    THEN CHOOSE i \in DOMAIN s : s[i] = c /\ \A k \in 1..(i - 1) : s[k] # c
    ELSE 0

\* The loop over the value from index i: the characters up to the first
\* quote that no backslash precedes, the escapes decoded.
RECURSIVE DecodeValue(_, _, _, _)
DecodeValue(jsonPart, i, isEscaped, currentContent) ==
    IF i > Len(jsonPart) THEN currentContent
    ELSE IF isEscaped
    THEN DecodeValue(jsonPart, i + 1, FALSE,
                     Append(currentContent,
                            IF jsonPart[i] = "n" THEN "lf" ELSE jsonPart[i]))
    ELSE IF jsonPart[i] = "bs" THEN DecodeValue(jsonPart, i + 1, TRUE, currentContent)
    ELSE IF jsonPart[i] = "q" THEN currentContent
    ELSE DecodeValue(jsonPart, i + 1, FALSE, Append(currentContent, jsonPart[i]))

extractPartialMessage(jsonStr) ==
    IF TrimChars(jsonStr) = <<>> THEN Thinking
    \* no line break in a document: an opening fence keeps the placeholder
    ELSE IF StartsWithFence(TrimChars(jsonStr)) THEN Thinking
    ELSE LET cleanStr == StripClosingFence(TrimChars(jsonStr))
             jsonStartIndex == IndexOf(cleanStr, "{")
             textBeforeJson == TrimChars(SubSeq(cleanStr, 1, jsonStartIndex - 1))
             jsonPart == SubSeq(cleanStr, jsonStartIndex, Len(cleanStr))
             msgKeyIndex == IndexOf(jsonPart, "key")
             afterKey == SubSeq(jsonPart, msgKeyIndex + 1, Len(jsonPart))
             startQuoteIndex == IF IndexOf(afterKey, "q") = 0 THEN 0
                                ELSE msgKeyIndex + IndexOf(afterKey, "q")
             currentContent == DecodeValue(jsonPart, startQuoteIndex + 1, FALSE, <<>>)
         IN  IF jsonStartIndex = 0 THEN Shown(cleanStr)
             ELSE IF msgKeyIndex = 0
             THEN IF Len(textBeforeJson) > 0 THEN Shown(textBeforeJson) ELSE Thinking
             ELSE IF startQuoteIndex = 0 THEN Thinking
             ELSE IF currentContent = <<>> THEN Thinking
             ELSE Shown(currentContent)

\* The length of the prefix given to the last call, -1 before the first.
FedLength == IF fnResult.returned THEN fnResult.fed ELSE -1

\* The stream grew to n characters and the display was computed from them.
Lib_extractPartialMessage ==
    /\ fnCall.fn = "extractPartialMessage"
    /\ \E n \in (FedLength + 1)..Len(fnCall.document) :
          fnResult' = [returned |-> TRUE, fed |-> n,
                       shown |-> extractPartialMessage(SubSeq(fnCall.document, 1, n))]
    /\ UNCHANGED fnCall
    /\ LibFrame

PartialInit ==
    /\ LibInit
    /\ \E s \in MessageValues :
          fnCall = [fn |-> "extractPartialMessage", message |-> s,
                    document |-> MessageDocument(s)]

SpecPartial == PartialInit /\ [][Lib_extractPartialMessage]_vars

-----------------------------------------------------------------------------
(***************************************************************************)
(* StoryboardEditor.tsx: the batch regeneration of visual prompts and the  *)
(* regeneration of one shot.  A shot is <<scene index, shot index>>; the   *)
(* scenes are given by the number of shots of each.                        *)
(***************************************************************************)

\* Most scenes of a storyboard, most shots of a scene, and most single-shot
\* generations the user starts.
MaxScenes == 2
MaxShots == 2
MaxSingle == 2

SceneLayouts == UNION {[1..n -> 0..MaxShots] : n \in 0..MaxScenes}

\* The shots of scenes sIdx.. in the order of the two nested loops.
RECURSIVE ShotsFrom(_, _)
ShotsFrom(scenes, sIdx) ==
    IF sIdx > Len(scenes) THEN <<>>
    ELSE [shIdx \in 1..scenes[sIdx] |-> <<sIdx, shIdx>>] \o ShotsFrom(scenes, sIdx + 1)

ShotsInOrder(scenes) == ShotsFrom(scenes, 1)

NoTask == [kind |-> "none", shot |-> <<0, 0>>]

\* The Visualizer requests that have not returned.
OutstandingRequests ==
    {i \in DOMAIN storyboard.requests : storyboard.requests[i].phase = "requesting"}

\* The batch loop reaches shot number at: it awaits visualizerGenerate for
\* it, or after the last shot awaits saveScenes.
BatchContinue(sb, at) ==
    LET shots == ShotsInOrder(sb.scenes)
    IN  IF at <= Len(shots)
        THEN [sb EXCEPT !.batchPc = "awaiting", !.batchAt = at,
                        !.currentTask = [kind |-> "Generating Shot", shot |-> shots[at]],
                        !.requests = Append(@, [by |-> "batch", shot |-> shots[at],
                                                phase |-> "requesting"]),
                        !.requested = Append(@, shots[at])]
        ELSE [sb EXCEPT !.batchPc = "saving", !.batchAt = at]

StoryboardFrame ==
    UNCHANGED <<files, isTyping, agentState, unlockedStages, chatPc, turn, calls,
                lastAligner, turnMessages, turnOutcome, appVars, smVars, lockVars,
                epVars, promptVars, libVars, db, smListeners>>

\* The batch button, enabled while no batch runs and there are scenes; the
\* user confirms.
Vis_handleBatchRefresh ==
    /\ storyboard.mounted
    /\ ~storyboard.batchProcessing
    /\ Len(storyboard.scenes) # 0
    /\ storyboard' = BatchContinue([storyboard EXCEPT !.batchProcessing = TRUE,
                                                      !.status = "working",
                                                      !.requested = <<>>], 1)
    /\ StoryboardFrame

\* visualizerGenerate of the batch returns or throws; the loop goes on.
Vis_batchRequestReturns ==
    /\ storyboard.mounted
    /\ storyboard.batchPc = "awaiting"
    /\ \E i \in OutstandingRequests :
          /\ storyboard.requests[i].by = "batch"
          /\ storyboard' =
                BatchContinue([storyboard EXCEPT
                                  !.requests = [k \in 1..(Len(@) - 1) |->
                                                   IF k < i THEN @[k] ELSE @[k + 1]]],
                              storyboard.batchAt + 1)
    /\ StoryboardFrame

\* saveScenes of the batch returns.
Vis_batchSaved ==
    /\ storyboard.mounted
    /\ storyboard.batchPc = "saving"
    /\ storyboard' = [storyboard EXCEPT !.batchPc = "idle", !.batchProcessing = FALSE,
                                        !.status = "success",
                                        !.currentTask = [kind |-> "Batch Refresh Complete",
                                                         shot |-> <<0, 0>>]]
    /\ StoryboardFrame

\* The button of one shot, disabled only while the task shown is the
\* visualizing of this shot.
Vis_handleGenerateVisual(shot) ==
    /\ storyboard.mounted
    /\ storyboard.singles < MaxSingle
    /\ ~(/\ storyboard.status = "working"
         /\ storyboard.currentTask = [kind |-> "Visualizing", shot |-> shot])
    /\ storyboard' = [storyboard EXCEPT
                          !.status = "working",
                          !.currentTask = [kind |-> "Visualizing", shot |-> shot],
                          !.singles = @ + 1,
                          !.requests = Append(@, [by |-> "single", shot |-> shot,
                                                  phase |-> "requesting"])]
    /\ StoryboardFrame

\* visualizerGenerate of one shot returns (saveScenes follows) or throws
\* (the handler ends there).
Vis_singleRequestReturns(ok) ==
    /\ storyboard.mounted
    /\ \E i \in OutstandingRequests :
          /\ storyboard.requests[i].by = "single"
          /\ storyboard' =
                [storyboard EXCEPT
                    !.requests = IF ok THEN [@ EXCEPT ![i].phase = "saving"]
                                 ELSE [k \in 1..(Len(@) - 1) |->
                                          IF k < i THEN @[k] ELSE @[k + 1]]]
    /\ StoryboardFrame

\* saveScenes of one shot returns.
Vis_singleSaved ==
    /\ storyboard.mounted
    /\ \E i \in DOMAIN storyboard.requests :
          /\ storyboard.requests[i].phase = "saving"
          /\ storyboard' =
                [storyboard EXCEPT
                    !.status = "idle",
                    !.requests = [k \in 1..(Len(@) - 1) |->
                                     IF k < i THEN @[k] ELSE @[k + 1]]]
    /\ StoryboardFrame

StoryboardNext ==
    \/ Vis_handleBatchRefresh
    \/ Vis_batchRequestReturns
    \/ Vis_batchSaved
    \/ \E shot \in {ShotsInOrder(storyboard.scenes)[i] :
                       i \in DOMAIN ShotsInOrder(storyboard.scenes)} :
          Vis_handleGenerateVisual(shot)
    \/ \E ok \in BOOLEAN : Vis_singleRequestReturns(ok)
    \/ Vis_singleSaved

StoryboardInit ==
    /\ MountedIdle
    /\ PromptIdle
    /\ LibIdle
    /\ db = NoDb
    /\ smListeners = NoListeners
    /\ SMInit
    /\ smStage = "world"
    /\ \E scenes \in SceneLayouts :
          storyboard = [mounted |-> TRUE, scenes |-> scenes, batchProcessing |-> FALSE,
                        status |-> "idle", currentTask |-> NoTask,
                        batchPc |-> "idle", batchAt |-> 0, singles |-> 0,
                        requests |-> <<>>, requested |-> <<>>]

SpecStoryboard == StoryboardInit /\ [][StoryboardNext]_vars

-----------------------------------------------------------------------------
(***************************************************************************)
(* db.ts: the files table of one project and the calls that write it.  The *)
(* table's index [projectId+path] is not unique, so the table is a set of  *)
(* rows [id, path, content].  Each await of fileAPI is a step of its own.  *)
(***************************************************************************)

Callers == {"c1", "c2"}

FilePaths == {"world.md", "episodes/EP-02.md"}

SaveKinds == {"createFile", "autoSave", "handleSaveIntent"}

NoRow == [id |-> 0]

IdleCall == [pc |-> "idle"]

RowsAt(path) == {row \in db.files : row.path = path}

\* db.files.where({projectId, path}).first(): the row of the path with the
\* least primary key, NoRow when there is none.
firstFileAt(path) ==
    IF RowsAt(path) = {} THEN NoRow
    ELSE CHOOSE row \in RowsAt(path) : \A other \in RowsAt(path) : row.id <= other.id

DbFrame ==
    UNCHANGED <<files, isTyping, agentState, unlockedStages, chatPc, turn, calls,
                lastAligner, turnMessages, turnOutcome, appVars, smVars, lockVars,
                epVars, promptVars, libVars, storyboard, smListeners>>

\* A caller starts a save of its content to a path: fileAPI.createFile, the
\* editor's auto-save or the chat's handleSaveIntent (both read the file
\* first and then update or create it).
Db_startSave(c, kind, path) ==
    /\ db.open
    /\ db.calls[c] = IdleCall
    /\ db' = [db EXCEPT !.calls[c] =
                 [pc |-> IF kind = "createFile" THEN "createFile" ELSE "getFile",
                  kind |-> kind, path |-> path, file |-> NoRow]]
    /\ DbFrame

\* await fileAPI.getFile of the save sequence returns.
Db_getFileReturns(c) ==
    /\ db.open
    /\ db.calls[c].pc = "getFile"
    /\ LET file == firstFileAt(db.calls[c].path)
       IN  db' = [db EXCEPT !.calls[c].file = file,
                            !.calls[c].pc = IF file # NoRow THEN "updateFile"
                                            ELSE "createFile"]
    /\ DbFrame

\* createFile: await this.getFile returns.
Db_createFileLooksUp(c) ==
    /\ db.open
    /\ db.calls[c].pc = "createFile"
    /\ LET existing == firstFileAt(db.calls[c].path)
       IN  db' = [db EXCEPT !.calls[c].file = existing,
                            !.calls[c].pc = IF existing # NoRow THEN "update"
                                            ELSE "add"]
    /\ DbFrame

\* db.files.add(file): the index on the path admits a second row.
AddRow(rows, row) == rows \cup {row}

\* createFile: db.files.add with a fresh id, or db.files.update of the row
\* found; updateFile: db.files.update of the row found.
Db_write(c) ==
    /\ db.open
    /\ db.calls[c].pc \in {"add", "update", "updateFile"}
    /\ db' = [db EXCEPT
                 !.files =
                     IF db.calls[c].pc = "add"
                     THEN AddRow(@, [id |-> db.nextId, path |-> db.calls[c].path,
                                     content |-> c])
                     ELSE {IF row.id = db.calls[c].file.id
                           THEN [row EXCEPT !.content = c] ELSE row : row \in @},
                 !.nextId = IF db.calls[c].pc = "add" THEN @ + 1 ELSE @,
                 !.calls[c] = IdleCall]
    /\ DbFrame

DbNext ==
    \/ \E c \in Callers, kind \in SaveKinds, path \in FilePaths :
          Db_startSave(c, kind, path)
    \/ \E c \in Callers : Db_getFileReturns(c)
    \/ \E c \in Callers : Db_createFileLooksUp(c)
    \/ \E c \in Callers : Db_write(c)

\* A project as projectAPI.create leaves it (world.md exists), no call in
\* progress.
DbInit ==
    /\ MountedIdle
    /\ PromptIdle
    /\ LibIdle
    /\ storyboard = NoStoryboard
    /\ smListeners = NoListeners
    /\ SMInit
    /\ smStage = "world"
    /\ db = [open |-> TRUE,
             files |-> {[id |-> 1, path |-> "world.md", content |-> "default"]},
             nextId |-> 2,
             calls |-> [c \in Callers |-> IdleCall]]

SpecDb == DbInit /\ [][DbNext]_vars

-----------------------------------------------------------------------------
(***************************************************************************)
(* Claims about the AgentStateMachine.                                     *)
(***************************************************************************)

\* The stage before the most recent method call.
SMPrevStage == smTrace[Len(smTrace) - 1]

SMCalled == Len(smTrace) >= 2

HasEvent(events, name) == \E i \in 1..Len(events) : events[i].event = name

C5_MonotonicStage ==
    /\ \A i \in 1..(Len(smTrace) - 1) :
          /\ StageIndex(smTrace[i + 1]) - StageIndex(smTrace[i]) \in {0, 1}
          /\ smTrace[i + 1] # smTrace[i] =>
                smTrace[i + 1] = STAGE_CONFIG[smTrace[i]].nextStage
          /\ smTrace[i] = "production" => smTrace[i + 1] = "production"
    /\ (SMCalled /\ SMPrevStage = "production") =>
          /\ smLastOp.ret = False
          /\ ~HasEvent(smEvents, "stageChange")
          /\ advanceToNext(SMPrevStage).ret = Null

\* C5 witness: three saves walked world -> characters -> outline -> production
\* and a fourth call was made in production.
C5_Witness ==
    /\ smTrace = <<"world", "characters", "outline", "production", "production">>
    /\ smLastOp.op = "onContentSaved"

\* C6: onContentSaved(targetFile) advances only when the stage mapped to
\* targetFile is the current stage; for a file of another stage or a file
\* outside the mapping it returns false, leaves the stage unchanged and emits
\* neither contentSaved nor stageChange.
C6_AdvanceOnlyForCurrentStageFile ==
    (SMCalled /\ smLastOp.op = "onContentSaved") =>
        LET f == smLastOp.arg
            matches == f \in DOMAIN FILE_TO_STAGE /\ FILE_TO_STAGE[f] = SMPrevStage
        IN  /\ ~matches =>
                  /\ smLastOp.ret = False
                  /\ smStage = SMPrevStage
                  /\ smEvents = <<>>
            /\ smLastOp.ret = True => matches /\ smStage = STAGE_CONFIG[SMPrevStage].nextStage

\* C6 witness: world.md moved the stage from world to characters, and a
\* second save of world.md caused no transition.
C6_Witness ==
    /\ smTrace = <<"world", "characters", "characters">>
    /\ smLastOp = [op |-> "onContentSaved", arg |-> "world.md", ret |-> False]
-----------------------------------------------------------------------------
(***************************************************************************)
(* Claims about the validate-and-save loop of useProjectChat.              *)
(***************************************************************************)

InLoop == chatPc \in {"aligner", "fixer"}

LoopOutcomes == {"saved", "exhausted", "noop_fix", "fixer_error", "error"}

\* C4: in one invocation of the validate-and-save loop, whatever the Aligner
\* and the AutoFixer return or throw, the Aligner is called at most
\* MAX_AUTO_FIX_ATTEMPTS times and the AutoFixer at most
\* MAX_AUTO_FIX_ATTEMPTS - 1 times, and the invocation ends with a saved or
\* failed result.
C4_BoundedRetries ==
    /\ [](/\ calls.aligner <= MAX_AUTO_FIX_ATTEMPTS
          /\ calls.fixer <= MAX_AUTO_FIX_ATTEMPTS - 1
          /\ (calls.aligner > 0 /\ chatPc = "idle") => turnOutcome \in LoopOutcomes)
    /\ (InLoop ~> (chatPc = "idle" /\ turnOutcome \in LoopOutcomes))

\* C4 witness: every attempt failed; the loop ended after
\* MAX_AUTO_FIX_ATTEMPTS Aligner calls and one AutoFixer call fewer.
C4_Witness ==
    /\ chatPc = "idle"
    /\ turnOutcome = "exhausted"
    /\ calls.aligner = MAX_AUTO_FIX_ATTEMPTS
    /\ calls.fixer = MAX_AUTO_FIX_ATTEMPTS - 1
    /\ calls.writes = 0


\* C7: whenever the loop returns saved:true the store received exactly one
\* create or update during the invocation, issued when the last Aligner call
\* passed, and the stored content is the candidate of that call: the
\* AutoFixer's latest output when a fix ran, the extracted text otherwise.
\* No write is made while the loop is still running.
C7_SavedMeansOneValidatedWrite ==
    /\ chatPc # "idle" => calls.writes = 0
    /\ turnOutcome = "saved" =>
          /\ calls.writes = 1
          /\ lastAligner.n = calls.aligner
          /\ lastAligner.result = "pass"
          /\ files[turn.target] = lastAligner.content
          /\ lastAligner.content =
                IF calls.fixer > 0 THEN turn.lastFixed ELSE turn.extracted

\* C7 witness: fail, fix, pass; one write of the fixed text, which is not the
\* extracted text.
C7_Witness ==
    /\ turnOutcome = "saved"
    /\ calls.aligner = 2
    /\ calls.fixer = 1
    /\ calls.writes = 1
    /\ turn.lastFixed # turn.extracted
    /\ files[turn.target] = turn.lastFixed

\* C8 (as stated): whenever the loop ends with the Aligner still failing
\* after all MAX_AUTO_FIX_ATTEMPTS attempts, the turn's last message is a
\* system message with the last Aligner feedback and an auto_fix action whose
\* originalContent is the candidate that was checked last, and the agent
\* status is failed with the same action.
C8_ExhaustionReported ==
    turnOutcome = "exhausted" =>
        LET last == turnMessages[Len(turnMessages)]
            action == AutoFixAction(turn.target, lastAligner.content,
                                    Feedback(calls.aligner))
        IN  /\ last.role = "system"
            /\ last.kind = "failed"
            /\ last.feedback = Feedback(calls.aligner)
            /\ last.action = action
            /\ agentState = [status |-> "failed", action |-> action]

\* C9 (as stated): when the AutoFixer returns content equal after trimming to
\* the current candidate, the loop stops at once with saved:false and makes no
\* further Aligner or AutoFixer call; when the returned content differs, the
\* next Aligner call receives exactly the AutoFixer's output.
C9_FixOutputDecidesNextStep ==
    [][ (chatPc = "fixer" /\ turn'.lastFixed # Throw) =>
            IF Trim(turn'.lastFixed) = Trim(turn.current)
            THEN /\ chatPc' = "idle"
                 /\ turnOutcome' = "noop_fix"
                 /\ calls' = calls
                 /\ files' = files
            ELSE /\ chatPc' = "aligner"
                 /\ calls'.aligner = calls.aligner + 1
                 /\ lastAligner' = [content |-> turn'.lastFixed,
                                    n |-> calls.aligner + 1, result |-> "pending"] ]_vars

\* C9 (amended): when the AutoFixer returns the empty text, or content equal
\* after trimming to the current candidate, the loop stops at once with
\* saved:false, no write and no further Aligner or AutoFixer call; when it
\* returns a non-empty text that differs after trimming, the next Aligner call
\* receives exactly that text.
C9_NonEmptyFixOutputDecidesNextStep ==
    [][ (chatPc = "fixer" /\ turn'.lastFixed # Throw) =>
            IF \/ turn'.lastFixed = EmptyStr
               \/ Trim(turn'.lastFixed) = Trim(turn.current)
            THEN /\ chatPc' = "idle"
                 /\ turnOutcome' = "noop_fix"
                 /\ calls' = calls
                 /\ files' = files
            ELSE /\ chatPc' = "aligner"
                 /\ calls'.aligner = calls.aligner + 1
                 /\ calls'.fixer = calls.fixer
                 /\ lastAligner' = [content |-> turn'.lastFixed,
                                    n |-> calls.aligner + 1, result |-> "pending"] ]_vars

\* C9 witness: the loop stopped on a fix that differs from the candidate only
\* by blanks.
C9_Witness ==
    /\ turnOutcome = "noop_fix"
    /\ turn.lastFixed # Throw
    /\ turn.lastFixed # turn.current
    /\ Trim(turn.lastFixed) = Trim(turn.current)
    /\ calls.writes = 0

-----------------------------------------------------------------------------
(***************************************************************************)
(* Claims about the agent flow as a whole (both hooks).                    *)
(***************************************************************************)

\* C2 (as stated): a stored document is created or updated by the agent flow
\* only immediately after an Aligner call returned pass for exactly the
\* content being written; a turn or auto-fix that fails validation, exhausts
\* its attempts or throws leaves every stored document unchanged.
C2_WritesOnlyAfterPass ==
    [][ \A p \in Paths :
            files'[p] # files[p] =>
                /\ lastAligner.result = "pending"
                /\ lastAligner'.result = "pass"
                /\ lastAligner'.content = files'[p] ]_vars

\* C3 (as stated): in every chat save path, when the candidate body equals the
\* stored content of the target document after trimming both, the turn makes
\* no Aligner call, writes nothing to the store and does not change the
\* current stage.
C3_UnchangedContentIsIdempotent ==
    [][ turn'.sameAsStored =>
            /\ calls'.aligner = 0
            /\ calls'.writes = 0
            /\ chatPc' # chatPc => currentStage' = currentStage ]_vars

\* C10 (as stated): while a chat turn is in flight, a handleSendMessage or
\* handleAutoFix that is issued starts no Writer, Aligner or AutoFixer call
\* and writes no document, at once or later.
C10_NoAgentWorkWhileTurnInFlight ==
    [][ ( /\ isTyping
          /\ chatPc' = chatPc
          /\ autoFix.pc = "idle" \/ autoFix.duringTurn ) =>
            /\ calls' = calls
            /\ files' = files
            /\ autoFix'.fixer <= autoFix.fixer ]_vars

-----------------------------------------------------------------------------
(***************************************************************************)
(* Claims about the background lock (useAgentSystem).                      *)
(***************************************************************************)

BackgroundFiles == {"world.md", "characters.md", "outline.md"}

\* C11 (as stated): in every reachable state the current stage is
\* production, or production is among the unlocked stages, only if the
\* project's BackgroundLock has been set by a passing unified validation.
C11_ProductionOnlyWhenLocked ==
    (currentStage = "production" \/ "production" \in unlockedStages) =>
        (isBackgroundLocked /\ lockCall.validation = "pass")

\* C12 (as stated): once the project's BackgroundLock is set, no operation
\* changes the stored content of world.md, characters.md or outline.md.
C12_LockedDocumentsReadOnly ==
    [][ isBackgroundLocked => \A p \in BackgroundFiles : files'[p] = files[p] ]_vars

-----------------------------------------------------------------------------
(***************************************************************************)
(* Claims about the episode flow.                                          *)
(***************************************************************************)

ExistingEpisodes == {n \in 1..MaxEpisodes : episodeFiles[n] # NoFile}

StatedStatus(L, sceneFileExists) ==
    IF sceneFileExists THEN "storyboard_completed"
    ELSE IF L <= 20 THEN "not_started"
    ELSE IF L <= 200 THEN "in_progress"
    ELSE "script_completed"

CompletedIn(n, store, scenes) ==
    /\ store[n] # NoFile
    /\ StatedStatus(store[n].len, n \in scenes) \in
          {"script_completed", "storyboard_completed"}

\* C16 (as stated): after a save that leaves the current episode completed,
\* disabled changes neither the current episode nor the prompt; confirm
\* opens the prompt and keeps the current episode, also when the next
\* episode does not exist yet; immediate moves to the next episode, when
\* there is one, without opening the prompt; confirmAdvance moves to the
\* next episode, which exists afterwards, and closes the prompt.
C16_SaveFollowsAutoAdvancePreference ==
    [][ /\ (epLastOp'.op = "onEpisodeSaved" /\
             CompletedIn(currentEpisodePath, episodeFiles', sceneFiles')) =>
            /\ autoAdvancePreference = "disabled" =>
                  /\ currentEpisodePath' = currentEpisodePath
                  /\ advanceModalState' = advanceModalState
            /\ autoAdvancePreference = "confirm" =>
                  /\ currentEpisodePath' = currentEpisodePath
                  /\ advanceModalState'.isOpen
            /\ autoAdvancePreference = "immediate" =>
                  /\ ~advanceModalState'.isOpen
                  /\ (currentEpisodePath < MaxEpisodes /\
                       episodeFiles'[currentEpisodePath + 1] # NoFile)
                      => currentEpisodePath' = currentEpisodePath + 1
        /\ epLastOp'.op = "confirmAdvance" =>
            /\ currentEpisodePath' = currentEpisodePath + 1
            /\ episodeFiles'[currentEpisodePath'] # NoFile
            /\ ~advanceModalState'.isOpen ]_vars

-----------------------------------------------------------------------------
(***************************************************************************)
(* Claims about assembleContext.                                           *)
(***************************************************************************)

\* The document text in the assembled string.
AssembledText ==
    assembled.current.text + assembled.outline.text
        + assembled.characters.text + assembled.world.text

\* The frames of the four sections with the longest file name, and one
\* marker per section.
AssembleOverhead ==
    CURRENT_FILE_FRAME + 17 + OUTLINE_FRAME + CHARACTERS_FRAME + WORLD_FRAME
        + 4 * TRUNCATION_MARKER

\* C17: for every context and every maxChars >= 0 the document text that
\* assembleContext includes is at most maxChars, and the length of its
\* result is at most maxChars plus the constant length of the four section
\* frames and four markers.
C17_BudgetRespected ==
    assembled.called =>
        /\ AssembledText <= assembled.maxTotalChars
        /\ assembled.length <= assembled.maxTotalChars + AssembleOverhead

\* C17 witness: a call in which the outline and the world section are both
\* cut, so the result is longer than maxChars by markers and frames only.
C17_Witness ==
    /\ assembled.called
    /\ assembled.outline.truncated
    /\ assembled.world.truncated
    /\ assembled.length > assembled.maxTotalChars

\* C18 (as stated): for a fixed context a call with a smaller or equal
\* maxChars never returns a longer string than a call with the larger one.
C18_SmallerBudgetNeverLonger ==
    [][ (/\ assembled.called
         /\ assembled'.called
         /\ assembled'.maxTotalChars <= assembled.maxTotalChars)
        => assembled'.length <= assembled.length ]_vars

\* C19 (as stated): the content of every section is at most its own share of
\* maxChars (current file 40%, outline, characters and world 20% each)
\* plus the marker, whatever the other sections used.
C19_EachSectionCappedByItsShare ==
    assembled.called =>
        /\ assembled.current.length <=
              FloorRatio(assembled.maxTotalChars, 4) + TRUNCATION_MARKER
        /\ assembled.outline.length <=
              FloorRatio(assembled.maxTotalChars, 2) + TRUNCATION_MARKER
        /\ assembled.characters.length <=
              FloorRatio(assembled.maxTotalChars, 2) + TRUNCATION_MARKER
        /\ assembled.world.length <=
              FloorRatio(assembled.maxTotalChars, 2) + TRUNCATION_MARKER

-----------------------------------------------------------------------------
(***************************************************************************)
(* Claims about the history window of writerChat.                          *)
(***************************************************************************)

\* The total length of the lines sent for history[from..Len(history)].
RECURSIVE SuffixSize(_, _)
SuffixSize(history, from) ==
    IF from > Len(history) THEN 0
    ELSE SentContent(history[from]).length + SuffixSize(history, from + 1)

\* The index of the oldest message sent (Len + 1 when none is sent).
OldestSent == Len(chatCall.history) - Len(historyMessages.messages) + 1

\* The window is the suffix of the history from OldestSent on, in order, a
\* system message with an activityLog sent as an assistant line with its
\* status, task and validation feedback.
WindowIsSuffix ==
    /\ Len(historyMessages.messages) <= Len(chatCall.history)
    /\ \A k \in DOMAIN historyMessages.messages :
          LET msg == chatCall.history[OldestSent + k - 1]
              sent == historyMessages.messages[k]
          IN  IF msg.role = "system" /\ msg.activityLog.present
              THEN /\ sent.role = "assistant"
                   /\ sent.content.kind = "notice"
                   /\ sent.content.success = (msg.activityLog.status = "success")
                   /\ sent.content.task = msg.activityLog.task
                   /\ sent.content.validationFeedback = msg.activityLog.validationFeedback
              ELSE /\ sent.role = msg.role
                   /\ sent.content = msg.content

\* C20 (as stated): the window is a suffix of the history in order; every
\* message is included while the total of the included lengths stays within
\* (at most) the remaining budget, and the newest message not included is
\* one with which the total would exceed the budget.
C20_WindowWithinBudget ==
    historyMessages.built =>
        /\ WindowIsSuffix
        /\ SuffixSize(chatCall.history, OldestSent) <= availableChars(chatCall)
        /\ OldestSent > 1 =>
              SuffixSize(chatCall.history, OldestSent - 1) > availableChars(chatCall)

\* C20 (amended): the window is a suffix of the history in order; every
\* message is included while the total of the included lengths stays
\* strictly below the remaining budget, and the newest message not included
\* is one with which the total would reach or exceed the budget.
C20_WindowBelowBudget ==
    historyMessages.built =>
        /\ WindowIsSuffix
        /\ Len(historyMessages.messages) > 0 =>
              SuffixSize(chatCall.history, OldestSent) < availableChars(chatCall)
        /\ OldestSent > 1 =>
              SuffixSize(chatCall.history, OldestSent - 1) >= availableChars(chatCall)

\* C20 witness: the walk sent a system log as an assistant notice and ended
\* at an older message with which the total would have been exactly the
\* remaining budget.
C20_Witness ==
    /\ historyMessages.built
    /\ Len(historyMessages.messages) >= 1
    /\ OldestSent > 1
    /\ historyMessages.messages[1].content.kind = "notice"
    /\ SuffixSize(chatCall.history, OldestSent - 1) = availableChars(chatCall)

-----------------------------------------------------------------------------
(***************************************************************************)
(* Claims about the parsing and checking functions.                        *)
(***************************************************************************)

\* C21 (as stated): alignerCheck reports success exactly when the reply
\* contains the PASS marker and no FAIL marker, and a provider error is
\* reported as a failure with the classified message as feedback.
C21_PassIffPassAndNoFail ==
    (fnCall.fn = "alignerCheck" /\ fnResult.returned /\ ~fnResult.threw) =>
        IF fnCall.outcome.kind = "reply"
        THEN fnResult.success <=>
                /\ \E i \in DOMAIN fnCall.outcome.text : fnCall.outcome.text[i] = "PASS"
                /\ \A i \in DOMAIN fnCall.outcome.text : fnCall.outcome.text[i] # "FAIL"
        ELSE /\ ~fnResult.success
             /\ fnResult.feedback.kind = "error"

\* C22 (as stated): once an Aligner call of the validate-and-save loop has
\* failed with a provider error, the loop calls neither the AutoFixer nor
\* the Aligner again.
C22_NoCallAfterProviderError ==
    [][ (lastAligner.result = "error" \/ lastAligner'.result = "error") =>
            /\ calls'.fixer = calls.fixer
            /\ calls'.aligner = calls.aligner ]_vars

\* Some stretch of the text, with or without its fences, is a JSON object
\* that has a string message or a saveRequest.
CarriesStandardJson(text) ==
    \E src \in {text, SelectSeq(text, LAMBDA tok : tok # "fence")} :
        \E i, j \in DOMAIN src :
            /\ i <= j
            /\ JsonParse(SubSeq(src, i, j)).ok
            /\ \/ JsonParse(SubSeq(src, i, j)).message
               \/ JsonParse(SubSeq(src, i, j)).saveRequest

IsPrefix(s, t) == Len(s) <= Len(t) /\ SubSeq(t, 1, Len(s)) = s

\* C24: over the growing prefixes of the document {"message":"s"} the
\* display is the placeholder until the first character of the value has
\* arrived, then strings of which each is a prefix of the next, and for the
\* whole document exactly the decoded s; nothing shown is withdrawn.
C24_ShownOnlyGrows ==
    [][ fnCall.fn = "extractPartialMessage" =>
            /\ (fnResult.returned /\ ~fnResult.shown.thinking) =>
                   /\ ~fnResult'.shown.thinking
                   /\ IsPrefix(fnResult.shown.text, fnResult'.shown.text)
            /\ fnResult'.shown.thinking =>
                   \/ fnResult'.fed <= 4
                   \/ fnCall.message = <<>>
            /\ (fnResult'.fed = Len(fnCall.document) /\ fnCall.message # <<>>) =>
                   fnResult'.shown = Shown(fnCall.message) ]_vars

\* C25: while a batch regeneration runs, the batch asks for the shots one
\* after another in scene order then shot order, and at most one Visualizer
\* request is outstanding, single-shot generations and second batches
\* included.
C25_OneVisualizerRequest ==
    (storyboard.mounted /\ storyboard.batchProcessing) =>
        /\ Cardinality(OutstandingRequests) <= 1
        /\ IsPrefix(storyboard.requested, ShotsInOrder(storyboard.scenes))
        /\ Cardinality({i \in OutstandingRequests :
                           storyboard.requests[i].by = "batch"}) <= 1

\* C26: a step that creates a new episode (handleCreateEpisode, or
\* confirmAdvance on the last episode) leaves every episode file that
\* existed before it unchanged, whatever episode files chat saves created.
C26_CreateKeepsExistingEpisodes ==
    [][ (\/ epLastOp'.op = "handleCreateEpisode"
         \/ epLastOp' = EpisodeOp("confirmAdvance", TRUE)) =>
            \A n \in DOMAIN episodeFiles :
                episodeFiles[n] # NoFile => episodeFiles'[n] = episodeFiles[n] ]_vars

\* C27: the files table holds at most one row for each path, however the
\* awaits of concurrent createFile calls and save sequences interleave.
C27_OneFilePerPath ==
    db.open => \A path \in FilePaths : Cardinality(RowsAt(path)) <= 1

\* C28: a stage change emits exactly one stageChange(new, old) with old
\* different from new and getStage() = new during the delivery, and the
\* event reaches every listener subscribed at the emit exactly once, also
\* when a listener throws or unsubscribes itself during the delivery; in
\* onContentSaved the contentSaved event comes before the stage change.
C28_StageChangeReachesEveryListener ==
    smListeners.modelled =>
        LET changes == {i \in DOMAIN smEvents : smEvents[i].event = "stageChange"}
        IN  /\ Len(smTrace) >= 2 /\ smLastOp.op # "on" =>
                 (smTrace[Len(smTrace)] # smTrace[Len(smTrace) - 1]
                      <=> Cardinality(changes) = 1)
            /\ \A i \in changes :
                   /\ smEvents[i].a = smStage
                   /\ smEvents[i].b # smEvents[i].a
                   /\ smEvents[i].stageAtEmit = smEvents[i].a
                   /\ \A k \in 1..(i - 1) : smEvents[k].event = "contentSaved"
                   /\ \A j \in DOMAIN smListeners.atEmit :
                          Cardinality({k \in DOMAIN smListeners.called :
                              smListeners.called[k] = smListeners.atEmit[j].name}) = 1

\* C29: in the episode-progress list an unlocked episode has only completed
\* episodes before it: the unlocked episodes form a prefix of the list
\* sorted by episode number.
C29_UnlockedImpliesEarlierCompleted ==
    \A i \in DOMAIN episodeProgress :
        ~episodeProgress[i].isLocked =>
            \A j \in 1..(i - 1) :
                /\ isCompleted(episodeProgress[j].status)
                /\ ~episodeProgress[j].isLocked

\* C30: in the request a chat turn sends to the Writer the text typed in
\* the turn appears exactly once, as the last message; the history part
\* does not contain the message of the turn in progress.
C30_InputSentOnce ==
    (chatCall # NoChatCall /\ "sent" \in DOMAIN chatCall /\ chatCall.sent) =>
        LET messages == WriterMessages(chatCall, historyMessages.messages)
        IN  /\ Cardinality({i \in DOMAIN messages :
                               messages[i].content.kind = "input"}) = 1
            /\ messages[Len(messages)].content = InputContent(chatCall.userInput)
            /\ messages[1].role = "system"

=============================================================================
